---- MODULE Spec2Model ----
(***************************************************************************)
(* A model of the Cisco network tool: the configuration records the parser *)
(* produces (config_parser.py), the topology graph engine                  *)
(* (topology_builder.py, utils.py), the validator (validator.py), the load *)
(* estimator (load_balancer.py) and the device simulator (simulator.py).   *)
(*                                                                         *)
(* Device names and IP addresses are kept as the sequences of characters   *)
(* and octets the code inspects: a name is a tuple of one-character        *)
(* strings, an address or mask a tuple of four octets.  Python's None is   *)
(* the empty tuple None where an address, a mask or a name is expected and *)
(* NoneInt where a number is expected.  A dict is the sequence of its      *)
(* entries in insertion order, because the code iterates dicts in that     *)
(* order.                                                                  *)
(***************************************************************************)
EXTENDS Integers, Sequences, FiniteSets, TLC

None == <<>>
NoneInt == 0 - 1

(***************************************************************************)
(* Bounds of the exploration.                                              *)
(***************************************************************************)
\* devices parsed in one run
MaxDevices == 3
\* build_topology calls on one TopologyBuilder
MaxBuilds == 2
\* largest k of an alternative-path query
MaxK == 2
\* validate_configuration calls on one ConfigValidator
MaxValidations == 2
\* analyze_traffic_load calls on one LoadBalancer
MaxAnalyses == 2
\* simulated seconds the clock may reach
MaxTime == 30
\* coordinator calls (start, pause, resume, stop, fault) in one simulation
MaxCalls == 3
MaxMailbox == 3

(***************************************************************************)
(* Program constants.                                                      *)
(***************************************************************************)
DefaultBandwidth == 100000
DefaultMtu == 1500
BaseDemand == 10000
RouterDemand == 20000
CoreDemand == 30000
UpdateInterval == 30

(***************************************************************************)
(* Device names.                                                           *)
(***************************************************************************)
R1 == <<"R", "1">>
R2 == <<"R", "2">>
Switch0 == <<"S", "w", "i", "t", "c", "h", "0">>
PC0 == <<"P", "C", "0">>
Server1 == <<"S", "e", "r", "v", "e", "r", "1">>
\* a name no configuration uses: the endpoint of a query for an absent node
Ghost == <<"X", "9">>

DeviceNames == {R1, R2, Switch0, PC0, Server1}

\* a router whose directory name holds the '-' that link ids are joined with
RDash3 == <<"R", "-", "3">>

\* str.lower() on the characters the names use
LowerChar(c) ==
  CASE c = "R" -> "r"
    [] c = "S" -> "s"
    [] c = "P" -> "p"
    [] c = "C" -> "c"
    [] c = "X" -> "x"
    [] OTHER -> c

Lower(name) == [k \in 1..Len(name) |-> LowerChar(name[k])]

\* str.startswith
StartsWith(s, prefix) ==
  /\ Len(s) >= Len(prefix)
  /\ SubSeq(s, 1, Len(prefix)) = prefix

\* the "in" operator on strings: sub occurs in s
Contains(s, sub) ==
  \E k \in 0..(Len(s) - Len(sub)) : SubSeq(s, k + 1, k + Len(sub)) = sub

\* ConfigParser._determine_device_type: the 'type' field of a device record
DetermineDeviceType(device_name) ==
  IF StartsWith(Lower(device_name), <<"r">>) THEN "router"
  ELSE IF StartsWith(Lower(device_name), <<"s">>) THEN "switch"
  ELSE "unknown"

\* TopologyBuilder._get_device_type
GetDeviceType(device_name) ==
  LET name_lower == Lower(device_name) IN
  IF StartsWith(name_lower, <<"r">>) /\ Len(device_name) <= 3 THEN "router"
  ELSE IF \/ StartsWith(name_lower, <<"s", "w", "i", "t", "c", "h">>)
          \/ StartsWith(name_lower, <<"s", "w">>) THEN "switch"
  ELSE IF StartsWith(name_lower, <<"p", "c">>) THEN "pc"
  ELSE IF StartsWith(name_lower, <<"s", "e", "r", "v", "e", "r">>) THEN "server"
  ELSE IF StartsWith(name_lower, <<"l", "a", "p", "t", "o", "p">>) THEN "laptop"
  ELSE "unknown"

(***************************************************************************)
(* IPv4 arithmetic (utils.is_same_network, ipaddress.IPv4Network).         *)
(***************************************************************************)
RECURSIVE BitAnd(_, _)
BitAnd(a, b) ==
  IF a = 0 \/ b = 0 THEN 0
  ELSE (a % 2) * (b % 2) + 2 * BitAnd(a \div 2, b \div 2)

\* IPv4Network(ip/netmask, strict=False).network_address
NetworkAddress(ip, netmask) == [k \in 1..4 |-> BitAnd(ip[k], netmask[k])]

\* The slip of comparing net1 with itself: any two addresses pass.
IsSameNetworkSelfCompare(ip1, ip2, netmask) ==
  IF netmask = None THEN FALSE
  ELSE NetworkAddress(ip1, netmask) = NetworkAddress(ip1, netmask)

\* utils.is_same_network: both addresses under the one mask given; any
\* exception of the ipaddress module (a missing mask) gives False
IsSameNetwork(ip1, ip2, netmask) ==
  IF netmask = None THEN FALSE
  ELSE NetworkAddress(ip1, netmask) = NetworkAddress(ip2, netmask)

Mask24 == <<255, 255, 255, 0>>
Mask25 == <<255, 255, 255, 128>>

(***************************************************************************)
(* Configuration records (config_parser.py).                               *)
(***************************************************************************)
\* interface_info of ConfigParser._parse_interfaces
Ifc(name, ip, mask, bw, mtu, vlan, status) ==
  [name |-> name, ip_address |-> ip, subnet_mask |-> mask, bandwidth |-> bw,
   mtu |-> mtu, vlan |-> vlan, status |-> status]

\* the entry of the flattened interfaces dict: device, interface, **interface_info
FlatInterface(device_name, i) ==
  [device |-> device_name, interface |-> i.name, name |-> i.name,
   ip_address |-> i.ip_address, subnet_mask |-> i.subnet_mask,
   bandwidth |-> i.bandwidth, mtu |-> i.mtu, vlan |-> i.vlan, status |-> i.status]

HasIp(i) == i.ip_address # None

\* device_info of ConfigParser.parse_device_config
DeviceInfo(device_name, ifaces, protocols, vlans) ==
  [name |-> device_name, type |-> DetermineDeviceType(device_name),
   interfaces |-> ifaces, routing_protocols |-> protocols, vlans |-> vlans,
   hostname |-> device_name]

Range(s) == {s[k] : k \in 1..Len(s)}

\* the sequences without repetition of at most two elements of a set
UpToTwoOf(S) ==
  {<<>>} \cup {<<a>> : a \in S}
         \cup {p \in {<<a, b>> : a \in S, b \in S} : p[1] # p[2]}

(***************************************************************************)
(* The configuration dumps explored.  Two /24 networks, 10.0.0.0 and       *)
(* 10.0.1.0; R2 sits in the upper /25 half of the first.                   *)
(***************************************************************************)
TopologyInterfaces(d) ==
  IF d = R1 THEN
    {Ifc("Gi0/0", <<10, 0, 0, 1>>, Mask24, NoneInt, DefaultMtu, NoneInt, "up"),
     Ifc("Gi0/1", <<10, 0, 1, 1>>, Mask24, 10000, DefaultMtu, NoneInt, "up")}
  ELSE IF d = R2 THEN
    {Ifc("Se0/0", <<10, 0, 0, 129>>, Mask25, 0, DefaultMtu, NoneInt, "up")}
  ELSE IF d = Switch0 THEN
    {Ifc("Fa0/1", <<10, 0, 0, 2>>, Mask24, 200000, 9000, NoneInt, "up"),
     Ifc("Fa0/2", <<10, 0, 1, 2>>, Mask24, 12500, DefaultMtu, NoneInt, "up")}
  ELSE IF d = PC0 THEN
    {Ifc("eth0", <<10, 0, 1, 3>>, Mask24, NoneInt, DefaultMtu, NoneInt, "up")}
  ELSE
    {Ifc("eth0", <<10, 0, 1, 4>>, Mask24, 10000, DefaultMtu, NoneInt, "up")}

TopologyProtocols(d) ==
  IF d = R1 THEN <<[protocol |-> "ospf", id |-> 1]>>
  ELSE IF d = R2 THEN <<[protocol |-> "bgp", id |-> 65001]>>
  ELSE <<>>

TopologyConfigs ==
  UNION {{DeviceInfo(d, ifs, TopologyProtocols(d), <<>>) :
            ifs \in UpToTwoOf(TopologyInterfaces(d))} : d \in DeviceNames}

(***************************************************************************)
(* State.                                                                  *)
(***************************************************************************)
VARIABLES
  parsed_data,        \* ConfigParser: [devices, interfaces], both in dict order
  graph,              \* TopologyBuilder.graph: [nodes, adj, edges]
  hierarchy,          \* TopologyBuilder.hierarchy: [core, distribution, access]
  builds,             \* build_topology calls made on the builder
  alt_paths,          \* the last get_alternative_paths call and what it returned
  issues,             \* ConfigValidator.issues
  warnings,           \* ConfigValidator.warnings
  validations,        \* validate_configuration calls made on the validator
  validation_result,  \* what the last validate_configuration call returned
  validation_error,   \* the exception the last validate_configuration call raised
  overloaded_links,   \* LoadBalancer.overloaded_links
  load_analysis,      \* what the last analyze_traffic_load call returned
  analyses,           \* analyze_traffic_load calls made on the load balancer
  sim,                \* NetworkSimulator: [running, paused, stopping]
  actors,             \* NetworkSimulator.devices: name -> NetworkDevice
  now,                \* time.time(), in seconds since the simulator was made
  calls,              \* coordinator calls made on the simulator
  failed,             \* the devices a device_failure fault was injected into
  starts              \* start_simulation calls made on the simulator

topoVars == <<graph, hierarchy, builds, alt_paths>>
validatorVars == <<issues, warnings, validations, validation_result, validation_error>>
loadVars == <<overloaded_links, load_analysis, analyses>>
simVars == <<sim, actors, now, calls, failed, starts>>
vars == <<parsed_data, topoVars, validatorVars, loadVars, simVars>>

(***************************************************************************)
(* The parser's result (config_parser.py).                                 *)
(***************************************************************************)
DeviceNamesOf(data) == {data.devices[k].name : k \in 1..Len(data.devices)}

\* the flattened entries of one device, in the order of its interface blocks;
\* only interfaces with an IP address are flattened
FlatInterfacesOf(cfg) ==
  LET with_ip == SelectSeq(cfg.interfaces, HasIp) IN
  [k \in 1..Len(with_ip) |-> FlatInterface(cfg.name, with_ip[k])]

\* ConfigParser.parse_device_config: one more device directory parsed
ParseDeviceConfig(data, cfg) ==
  [devices |-> Append(data.devices, cfg),
   interfaces |-> data.interfaces \o FlatInterfacesOf(cfg)]

(***************************************************************************)
(* Topology graph engine (topology_builder.py).                            *)
(***************************************************************************)
Min(a, b) == IF a <= b THEN a ELSE b
Max(a, b) == IF a >= b THEN a ELSE b

\* nodes in insertion order, each node's neighbours in the order its edges
\* were first added (the order nx iterates them), the attributes of each edge
EmptyGraph == [nodes |-> <<>>, adj |-> [n \in {} |-> <<>>], edges |-> [e \in {} |-> 0]]
EmptyHierarchy == [core |-> <<>>, distribution |-> <<>>, access |-> <<>>]

NodeSet(g) == Range(g.nodes)
EdgeSet(g) == DOMAIN g.edges

\* nx.Graph.add_node: a node already present keeps its place
AddNode(nodes, n) == IF n \in Range(nodes) THEN nodes ELSE Append(nodes, n)

\* the neighbours of n in adjacency order
AdjOf(g, n) == IF n \in DOMAIN g.adj THEN g.adj[n] ELSE <<>>

\* The slip of keeping the attributes an edge was first given.
AddEdgeKeepsFirst(g, u, v, attrs) ==
  [nodes |-> AddNode(AddNode(g.nodes, u), v),
   adj |-> IF {u, v} \in EdgeSet(g) THEN g.adj
           ELSE [n \in DOMAIN g.adj \cup {u, v} |->
                   IF n = u THEN Append(AdjOf(g, u), v)
                   ELSE IF n = v THEN Append(AdjOf(g, v), u)
                   ELSE g.adj[n]],
   edges |-> [e \in EdgeSet(g) \cup {{u, v}} |->
                IF e \in EdgeSet(g) THEN g.edges[e] ELSE attrs]]

\* nx.Graph.add_edge: one edge per unordered pair, its attributes replaced by
\* the latest call's
AddEdge(g, u, v, attrs) ==
  [nodes |-> AddNode(AddNode(g.nodes, u), v),
   adj |-> IF {u, v} \in EdgeSet(g) THEN g.adj
           ELSE [n \in DOMAIN g.adj \cup {u, v} |->
                   IF n = u THEN Append(AdjOf(g, u), v)
                   ELSE IF n = v THEN Append(AdjOf(g, v), u)
                   ELSE g.adj[n]],
   edges |-> [e \in EdgeSet(g) \cup {{u, v}} |->
                IF e = {u, v} THEN attrs ELSE g.edges[e]]]

EndDeviceTypes == {"pc", "server", "laptop", "unknown"}

\* The rule as the code's first comment words it: connect when at least one
\* of the two is a router or a switch.
ShouldConnectAnyInfrastructure(device1_type, device2_type) ==
  \/ device1_type \in {"router", "switch"}
  \/ device2_type \in {"router", "switch"}

\* the should_connect decision of _add_connections
ShouldConnect(device1_type, device2_type) ==
  \/ device1_type = "router" /\ device2_type = "router"
  \/ device1_type = "router" /\ device2_type = "switch"
  \/ device1_type = "switch" /\ device2_type = "router"
  \/ device1_type = "switch" /\ device2_type \in EndDeviceTypes
  \/ device1_type \in EndDeviceTypes /\ device2_type = "switch"

\* int['bandwidth'] or 100000: None and 0 are both falsy
BandwidthOrDefault(bandwidth) ==
  IF bandwidth = NoneInt \/ bandwidth = 0 THEN DefaultBandwidth ELSE bandwidth

\* The slip of taking the faster side.
LinkBandwidthMax(bw1, bw2) == Max(bw1, bw2)

\* min(bw1, bw2)
LinkBandwidth(bw1, bw2) == Min(bw1, bw2)

\* the attributes add_edge is given; weight 1.0/link_bandwidth is kept as the
\* fraction <<1, link_bandwidth>>
LinkAttributes(int1, int2) ==
  LET link_bandwidth == LinkBandwidth(BandwidthOrDefault(int1.bandwidth),
                                      BandwidthOrDefault(int2.bandwidth)) IN
  [bandwidth |-> link_bandwidth,
   interface1 |-> int1.interface, interface2 |-> int2.interface,
   mtu1 |-> int1.mtu, mtu2 |-> int2.mtu,
   weight |-> <<1, link_bandwidth>>]

\* The slip of testing the pair under the second interface's mask.
SameSegmentSecondMask(int1, int2) ==
  /\ int1.ip_address # None
  /\ int2.ip_address # None
  /\ int1.device # int2.device
  /\ IsSameNetwork(int1.ip_address, int2.ip_address, int2.subnet_mask)

\* the test of _add_connections on one pair: both addressed, distinct devices,
\* same network under the FIRST interface's mask
SameSegment(int1, int2) ==
  /\ int1.ip_address # None
  /\ int2.ip_address # None
  /\ int1.device # int2.device
  /\ IsSameNetwork(int1.ip_address, int2.ip_address, int1.subnet_mask)

\* the body of the inner loop of _add_connections for the pair (int1, int2)
ConnectPair(g, int1, int2) ==
  IF /\ SameSegment(int1, int2)
     /\ ShouldConnect(GetDeviceType(int1.device), GetDeviceType(int2.device))
  THEN AddEdge(g, int1.device, int2.device, LinkAttributes(int1, int2))
  ELSE g

\* the two nested loops: i over the list, j over interface_list[i+1:]
RECURSIVE ConnectLoop(_, _, _, _)
ConnectLoop(g, interface_list, i, j) ==
  IF i > Len(interface_list) THEN g
  ELSE IF j > Len(interface_list) THEN ConnectLoop(g, interface_list, i + 1, i + 2)
  ELSE ConnectLoop(ConnectPair(g, interface_list[i], interface_list[j]),
                   interface_list, i, j + 1)

\* TopologyBuilder._add_connections
AddConnections(g, interface_list) == ConnectLoop(g, interface_list, 1, 2)

\* the add_node loop of build_topology
RECURSIVE AddNodes(_, _, _)
AddNodes(g, devices, k) ==
  IF k > Len(devices) THEN g
  ELSE AddNodes([g EXCEPT !.nodes = AddNode(g.nodes, devices[k].name)], devices, k + 1)

Degree(g, n) == Cardinality({e \in EdgeSet(g) : n \in e})

\* nx.degree_centrality times len(G) - 1 (the same positive factor for every
\* node, so the ranking is the ranking by centrality); 1 for every node of a
\* graph of at most one node
DegreeCentrality(g, n) == IF Len(g.nodes) <= 1 THEN 1 ELSE Degree(g, n)

\* The slip of ranking in ascending order (reverse=True left out).
RankedBeforeAscending(g, j, k) ==
  \/ DegreeCentrality(g, g.nodes[j]) < DegreeCentrality(g, g.nodes[k])
  \/ DegreeCentrality(g, g.nodes[j]) = DegreeCentrality(g, g.nodes[k]) /\ j < k

\* whether the node at index j is ranked before the node at index k by
\* sorted(..., key=centrality, reverse=True): larger first, and sorted() being
\* stable, equal ones in the order of the graph's nodes
RankedBefore(g, j, k) ==
  \/ DegreeCentrality(g, g.nodes[j]) > DegreeCentrality(g, g.nodes[k])
  \/ DegreeCentrality(g, g.nodes[j]) = DegreeCentrality(g, g.nodes[k]) /\ j < k

\* sorted_devices of _determine_hierarchy
SortedDevices(g) ==
  LET n == Len(g.nodes)
      Place(k) == 1 + Cardinality({j \in 1..n : RankedBefore(g, j, k)})
  IN [p \in 1..n |-> g.nodes[CHOOSE k \in 1..n : Place(k) = p]]

\* The slip of giving distribution the ranks below one half.
TierOfRankHalf(i, total_devices) ==
  IF 5 * i < total_devices THEN "core"
  ELSE IF 2 * i < total_devices THEN "distribution"
  ELSE "access"

\* the tier of the device at 0-based rank i among total_devices: i < total*0.2,
\* else i < total*0.6, else access.  The float products compare with i exactly
\* as 5i < total and 5i < 3 total do for every total below 40.
TierOfRank(i, total_devices) ==
  IF 5 * i < total_devices THEN "core"
  ELSE IF 5 * i < 3 * total_devices THEN "distribution"
  ELSE "access"

\* The slip of testing the tiers with independent ifs: a core device is
\* appended to distribution as well.
RECURSIVE AppendTierOverlapping(_, _, _, _)
AppendTierOverlapping(tier_list, sorted_devices, tier, p) ==
  IF p > Len(sorted_devices) THEN tier_list
  ELSE AppendTierOverlapping(
         IF \/ TierOfRank(p - 1, Len(sorted_devices)) = tier
            \/ tier = "distribution" /\ TierOfRank(p - 1, Len(sorted_devices)) = "core"
         THEN Append(tier_list, sorted_devices[p]) ELSE tier_list,
         sorted_devices, tier, p + 1)

\* tier_list with the devices of that tier appended, in ranking order
RECURSIVE AppendTier(_, _, _, _)
AppendTier(tier_list, sorted_devices, tier, p) ==
  IF p > Len(sorted_devices) THEN tier_list
  ELSE AppendTier(IF TierOfRank(p - 1, Len(sorted_devices)) = tier
                  THEN Append(tier_list, sorted_devices[p]) ELSE tier_list,
                  sorted_devices, tier, p + 1)

\* TopologyBuilder._determine_hierarchy: appends to the lists self.hierarchy holds
DetermineHierarchy(h, g) ==
  LET sorted_devices == SortedDevices(g) IN
  [core |-> AppendTier(h.core, sorted_devices, "core", 1),
   distribution |-> AppendTier(h.distribution, sorted_devices, "distribution", 1),
   access |-> AppendTier(h.access, sorted_devices, "access", 1)]

\* the graph build_topology leaves: nodes added, then connections
BuiltGraph(g, data) == AddConnections(AddNodes(g, data.devices, 1), data.interfaces)

Neighbors(g, n) == {m \in NodeSet(g) : {n, m} \in EdgeSet(g)}

\* the simple paths that extend path to target
RECURSIVE PathsFrom(_, _, _)
PathsFrom(g, path, target) ==
  IF path[Len(path)] = target THEN {path}
  ELSE UNION {PathsFrom(g, Append(path, n), target) :
                n \in Neighbors(g, path[Len(path)]) \ Range(path)}

SimplePaths(g, source, target) == PathsFrom(g, <<source>>, target)

ShortestLength(P) == CHOOSE m \in {Len(p) : p \in P} : \A p \in P : m <= Len(p)

\* the listings of a set of paths by non-decreasing length; paths of equal
\* length come in the enumeration's discovery order, which is left open
RECURSIVE ListingsByLength(_)
ListingsByLength(P) ==
  IF P = {} THEN {<<>>}
  ELSE UNION {{<<p>> \o q : q \in ListingsByLength(P \ {p})} :
                p \in {x \in P : Len(x) = ShortestLength(P)}}

\* nx.shortest_simple_paths raises NodeNotFound for an endpoint that is not a
\* node and NetworkXNoPath when no path joins the endpoints
PathQueryRaises(g, source, target) ==
  \/ source \notin NodeSet(g)
  \/ target \notin NodeSet(g)
  \/ SimplePaths(g, source, target) = {}

\* The slip of slicing one too many: paths[:k+1].
TakeOneMore(paths, k) == SubSeq(paths, 1, Min(k + 1, Len(paths)))

\* paths[:k] for k >= 0
Take(paths, k) == SubSeq(paths, 1, Min(k, Len(paths)))

\* TopologyBuilder.get_alternative_paths: what the call may return
AlternativePaths(g, source, target, k) ==
  IF PathQueryRaises(g, source, target) THEN {<<>>}
  ELSE {Take(paths, k) : paths \in ListingsByLength(SimplePaths(g, source, target))}

(***************************************************************************)
(* Validator (validator.py).                                               *)
(***************************************************************************)
MapSeq(s, F(_)) == [k \in 1..Len(s) |-> F(s[k])]

\* the elements of s in the order of their first occurrence: the keys of a
\* dict filled in the order of s
RECURSIVE Dedup(_)
Dedup(s) ==
  IF s = <<>> THEN <<>>
  ELSE LET rest == Dedup(SubSeq(s, 1, Len(s) - 1)) IN
       IF s[Len(s)] \in Range(rest) THEN rest ELSE Append(rest, s[Len(s)])

RECURSIVE Flatten(_)
Flatten(ss) == IF ss = <<>> THEN <<>> ELSE ss[1] \o Flatten(Tail(ss))

\* the elements of a set listed in one fixed order
RECURSIVE SeqOfSet(_)
SeqOfSet(S) ==
  IF S = {} THEN <<>>
  ELSE LET x == CHOOSE y \in S : TRUE IN <<x>> \o SeqOfSet(S \ {x})

IndexOf(seq, x) == CHOOSE k \in 1..Len(seq) : seq[k] = x

\* graph.edges(): each node in node order with its neighbours in adjacency
\* order, an edge being listed at the first of its two nodes
EdgeList(g) ==
  Flatten([k \in 1..Len(g.nodes) |->
             MapSeq(SelectSeq(AdjOf(g, g.nodes[k]),
                              LAMBDA v : IndexOf(g.nodes, v) >= k),
                    LAMBDA v : <<g.nodes[k], v>>)])

\* one entry of the issues or warnings list; about holds the values its
\* description is formatted from
Finding(type, severity, about, affected_devices) ==
  [type |-> type, severity |-> severity, about |-> about,
   affected_devices |-> affected_devices]

\* the key of ip_map: the address and the VLAN (None when the port has none)
IpVlanKey(i) == <<i.ip_address, i.vlan>>

\* the list ip_map holds for a key: one owning device per interface
DevicesOfKey(interfaces, key) ==
  MapSeq(SelectSeq(interfaces, LAMBDA i : HasIp(i) /\ IpVlanKey(i) = key),
         LAMBDA i : i.device)

\* len(devices) > 1
IsDuplicated(devices) == Len(devices) > 1

\* ConfigValidator._check_duplicate_ips: the issues it appends
CheckDuplicateIps(interfaces) ==
  LET keys == Dedup(MapSeq(SelectSeq(interfaces, HasIp), IpVlanKey))
      dup_keys == SelectSeq(keys, LAMBDA key : IsDuplicated(DevicesOfKey(interfaces, key)))
  IN MapSeq(dup_keys,
            LAMBDA key : Finding("duplicate_ip", "high", key, DevicesOfKey(interfaces, key)))

\* ConfigValidator._check_mtu_mismatches: the warnings it appends
CheckMtuMismatches(g) ==
  LET Mismatch(e) == g.edges[{e[1], e[2]}].mtu1 # g.edges[{e[1], e[2]}].mtu2 IN
  MapSeq(SelectSeq(EdgeList(g), Mismatch),
         LAMBDA e : Finding("mtu_mismatch", "medium",
                            <<g.edges[{e[1], e[2]}].mtu1, g.edges[{e[1], e[2]}].mtu2,
                              Max(g.edges[{e[1], e[2]}].mtu1, g.edges[{e[1], e[2]}].mtu2)>>,
                            e))

DeviceTypes(devices) == {devices[k].type : k \in 1..Len(devices)}

\* ConfigValidator._check_missing_components: the warnings it appends
CheckMissingComponents(devices) ==
  (IF "router" \notin DeviceTypes(devices)
   THEN <<Finding("missing_component", "medium", <<"router">>, <<>>)>> ELSE <<>>)
  \o
  (IF "switch" \notin DeviceTypes(devices)
   THEN <<Finding("missing_component", "low", <<"switch">>, <<>>)>> ELSE <<>>)

\* the names vlan_configs holds for a VLAN id
VlanNames(devices, vlan_id) ==
  {v.name : v \in {w \in UNION {Range(devices[k].vlans) : k \in 1..Len(devices)} :
                     w.id = vlan_id}}

\* ConfigValidator._check_vlan_consistency: the issues it appends
CheckVlanConsistency(devices) ==
  LET ids == Dedup(Flatten([k \in 1..Len(devices) |->
                              MapSeq(devices[k].vlans, LAMBDA v : v.id)]))
  IN MapSeq(SelectSeq(ids, LAMBDA id : Cardinality(VlanNames(devices, id)) > 1),
            LAMBDA id : Finding("vlan_inconsistency", "medium",
                                <<id, VlanNames(devices, id)>>, <<>>))

\* ip_address.endswith('.1'): the last octet is 1
EndsWithDotOne(ip) == ip[4] = 1

\* ConfigValidator._check_gateway_configuration: the warnings it appends
CheckGatewayConfiguration(devices) ==
  LET NoGateway(d) ==
        /\ d.type = "router"
        /\ ~\E i \in Range(d.interfaces) : HasIp(i) /\ EndsWithDotOne(i.ip_address)
  IN MapSeq(SelectSeq(devices, NoGateway),
            LAMBDA d : Finding("gateway_config", "low", <<>>, <<d.name>>))

\* the simple cycles of graph.to_directed(), each written from its first node
\* in node order: every edge is a cycle of two arcs, every undirected cycle
\* two cycles, one per direction
DirectedSimpleCycles(g) ==
  {c \in UNION {[1..n -> NodeSet(g)] : n \in 2..Len(g.nodes)} :
     /\ \A j \in 1..Len(c), k \in 1..Len(c) : j # k => c[j] # c[k]
     /\ \A k \in 2..Len(c) : IndexOf(g.nodes, c[1]) < IndexOf(g.nodes, c[k])
     /\ \A k \in 1..(Len(c) - 1) : {c[k], c[k + 1]} \in EdgeSet(g)
     /\ {c[Len(c)], c[1]} \in EdgeSet(g)}

\* ConfigValidator._check_network_loops: the warnings it appends, for the
\* first five cycles of the enumeration (whose order is fixed but not nx's)
CheckNetworkLoops(g) ==
  LET cycles == SeqOfSet(DirectedSimpleCycles(g)) IN
  MapSeq(SubSeq(cycles, 1, Min(5, Len(cycles))),
         LAMBDA c : Finding("network_loop", "medium", c, <<>>))

RunsProtocol(d, protocol) == \E r \in Range(d.routing_protocols) : r.protocol = protocol

\* ConfigValidator._suggest_protocol_optimization: the warnings it appends
SuggestProtocolOptimization(devices) ==
  LET total_devices == Len(devices)
      bgp_devices == Cardinality({k \in 1..Len(devices) : RunsProtocol(devices[k], "bgp")})
  IN (IF total_devices > 10 /\ bgp_devices = 0
      THEN <<Finding("protocol_optimization", "low", <<"bgp">>, <<>>)>> ELSE <<>>)
     \o
     (IF total_devices <= 5 /\ bgp_devices > 0
      THEN <<Finding("protocol_optimization", "low", <<"ospf">>, <<>>)>> ELSE <<>>)

\* devices[name]
DeviceRecord(devices, name) == devices[CHOOSE k \in 1..Len(devices) : devices[k].name = name]

\* devices[node]['type'] == devices[neighbor]['type'] == 'switch' raises
\* KeyError: both lookups are made, and one of the two names is not a key
AggregationRaisesAt(g, devices, node) ==
  /\ Len(AdjOf(g, node)) = 1
  /\ \E n \in {node, AdjOf(g, node)[1]} : \A k \in 1..Len(devices) : devices[k].name # n

\* the place in graph.nodes() of the first node at which the lookup raises,
\* 0 when it raises at none
FirstRaise(g, devices) ==
  LET at == {k \in 1..Len(g.nodes) : AggregationRaisesAt(g, devices, g.nodes[k])}
  IN IF at = {} THEN 0 ELSE CHOOSE k \in at : \A j \in at : k <= j

\* the warnings _suggest_node_aggregation appends for the first n nodes
SuggestNodeAggregationUpTo(g, devices, n) ==
  LET Leaf(node) ==
        /\ Len(AdjOf(g, node)) = 1
        /\ DeviceRecord(devices, node).type = "switch"
        /\ DeviceRecord(devices, AdjOf(g, node)[1]).type = "switch"
  IN MapSeq(SelectSeq(SubSeq(g.nodes, 1, n), Leaf),
            LAMBDA node : Finding("node_aggregation", "low", <<>>,
                                  <<node, AdjOf(g, node)[1]>>))

\* ConfigValidator._suggest_node_aggregation: the warnings it appends when
\* it returns
SuggestNodeAggregation(g, devices) == SuggestNodeAggregationUpTo(g, devices, Len(g.nodes))

\* what the checks append to self.issues, in call order
NewIssues(data, g) ==
  CheckDuplicateIps(data.interfaces) \o CheckVlanConsistency(data.devices)

\* what the checks before _suggest_node_aggregation append to self.warnings,
\* in call order
WarningsBeforeAggregation(data, g) ==
  CheckMtuMismatches(g) \o CheckMissingComponents(data.devices)
    \o CheckGatewayConfiguration(data.devices) \o CheckNetworkLoops(g)
    \o SuggestProtocolOptimization(data.devices)

\* what the checks append to self.warnings, in call order
NewWarnings(data, g) ==
  WarningsBeforeAggregation(data, g) \o SuggestNodeAggregation(g, data.devices)

\* the result of a parse of the first n device directories only
ParsedPrefix(data, n) ==
  [devices |-> SubSeq(data.devices, 1, n),
   interfaces |-> SelectSeq(data.interfaces,
                            LAMBDA i : \E k \in 1..n : data.devices[k].name = i.device)]

(***************************************************************************)
(* The configuration dumps the validator is run on: 10.0.1.2 is configured *)
(* on R1 and R2 outside any VLAN, twice on Switch0 in VLAN 10 and on       *)
(* Server1 in VLAN 20; VLAN 10 is named differently on Switch0 and Server1.*)
(***************************************************************************)
ValidatorInterfaces(d) ==
  IF d = R1 THEN
    {Ifc("Gi0/0", <<10, 0, 0, 1>>, Mask24, NoneInt, DefaultMtu, NoneInt, "up"),
     Ifc("Gi0/1", <<10, 0, 1, 2>>, Mask24, NoneInt, DefaultMtu, NoneInt, "up")}
  ELSE IF d = R2 THEN
    {Ifc("Se0/0", <<10, 0, 1, 2>>, Mask24, NoneInt, DefaultMtu, NoneInt, "up")}
  ELSE IF d = Switch0 THEN
    {Ifc("Fa0/1", <<10, 0, 1, 2>>, Mask24, NoneInt, DefaultMtu, 10, "up"),
     Ifc("Fa0/2", <<10, 0, 1, 2>>, Mask24, NoneInt, DefaultMtu, 10, "up")}
  ELSE IF d = PC0 THEN
    {Ifc("eth0", <<10, 0, 1, 3>>, Mask24, NoneInt, 9000, NoneInt, "up")}
  ELSE
    {Ifc("eth0", <<10, 0, 1, 2>>, Mask24, NoneInt, DefaultMtu, 20, "up")}

ValidatorVlans(d) ==
  IF d = Switch0 THEN <<[id |-> 10, name |-> "USERS"]>>
  ELSE IF d = Server1 THEN <<[id |-> 10, name |-> "SERVERS"], [id |-> 20, name |-> "DMZ"]>>
  ELSE <<>>

ValidatorConfigs ==
  UNION {{DeviceInfo(d, ifs, TopologyProtocols(d), ValidatorVlans(d)) :
            ifs \in UpToTwoOf(ValidatorInterfaces(d))} : d \in DeviceNames}

(***************************************************************************)
(* Load estimator (load_balancer.py).  A utilization is kept as the exact  *)
(* fraction <<demand, bandwidth>>: for the integers in play the float      *)
(* quotient compares with 0.8 exactly as the fraction compares with 4/5.   *)
(***************************************************************************)
\* f"{edge[0]}-{edge[1]}"
LinkId(u, v) == u \o <<"-">> \o v

\* link_name.split('-')
RECURSIVE Split(_)
Split(s) ==
  IF "-" \notin Range(s) THEN <<s>>
  ELSE LET k == CHOOSE j \in 1..Len(s) : s[j] = "-" /\ \A m \in 1..(j - 1) : s[m] # "-"
       IN <<SubSeq(s, 1, k - 1)>> \o Split(SubSeq(s, k + 1, Len(s)))

\* LoadBalancer._estimate_link_demand
EstimateLinkDemand(node1, node2) ==
  BaseDemand
  + (IF Contains(node1, <<"R">>) \/ Contains(node2, <<"R">>) THEN RouterDemand ELSE 0)
  + (IF Contains(Lower(node1), <<"c", "o", "r", "e">>)
        \/ Contains(Lower(node2), <<"c", "o", "r", "e">>) THEN CoreDemand ELSE 0)

\* estimated_demand / bandwidth if bandwidth > 0 else 0
Utilization(estimated_demand, bandwidth) ==
  IF bandwidth > 0 THEN <<estimated_demand, bandwidth>> ELSE <<0, 1>>

\* The slip of an inclusive threshold: utilization >= 0.8.
IsOverloadedInclusive(utilization) == 10 * utilization[1] >= 8 * utilization[2]

\* utilization > 0.8
IsOverloaded(utilization) == 10 * utilization[1] > 8 * utilization[2]

\* the entry of link_analysis for one edge
LinkAnalysis(g, e) ==
  LET bandwidth == g.edges[{e[1], e[2]}].bandwidth
      estimated_demand == EstimateLinkDemand(e[1], e[2])
      utilization == Utilization(estimated_demand, bandwidth)
  IN [link |-> LinkId(e[1], e[2]), bandwidth |-> bandwidth, demand |-> estimated_demand,
      utilization |-> utilization,
      status |-> IF IsOverloaded(utilization) THEN "overloaded" ELSE "normal"]

\* link_analysis[key] = value on a dict kept as the sequence of its entries
RECURSIVE DictOfEntries(_)
DictOfEntries(entries) ==
  IF entries = <<>> THEN <<>>
  ELSE LET rest == DictOfEntries(SubSeq(entries, 1, Len(entries) - 1))
           last == entries[Len(entries)]
       IN IF \E k \in 1..Len(rest) : rest[k].link = last.link
          THEN [k \in 1..Len(rest) |-> IF rest[k].link = last.link THEN last ELSE rest[k]]
          ELSE Append(rest, last)

\* the loop over graph.edges(data=True): every entry computed, in edge order
AnalyzedEdges(g) == MapSeq(EdgeList(g), LAMBDA e : LinkAnalysis(g, e))

\* what the loop appends to self.overloaded_links
NewOverloadedLinks(g) ==
  MapSeq(SelectSeq(AnalyzedEdges(g), LAMBDA a : IsOverloaded(a.utilization)),
         LAMBDA a : [link |-> a.link, utilization |-> a.utilization,
                     bandwidth |-> a.bandwidth, demand |-> a.demand])

\* int(demand * 1.5)
SuggestedBandwidth(demand) == (3 * demand) \div 2

\* the recommendations one overloaded link may get
RecommendationsOfLink(g, overloaded) ==
  LET nodes == Split(overloaded.link) IN
  {IF Len(paths) > 1
   THEN [type |-> "load_balancing", overloaded_link |-> overloaded.link,
         utilization |-> overloaded.utilization,
         alternative_paths |-> SubSeq(paths, 2, Len(paths))]
   ELSE [type |-> "capacity_upgrade", overloaded_link |-> overloaded.link,
         utilization |-> overloaded.utilization,
         current_bandwidth |-> overloaded.bandwidth,
         suggested_bandwidth |-> SuggestedBandwidth(overloaded.demand)] :
     paths \in AlternativePaths(g, nodes[1], nodes[2], 3)}

RECURSIVE RecommendationsOfLinks(_, _)
RecommendationsOfLinks(g, links) ==
  IF links = <<>> THEN {<<>>}
  ELSE {<<r>> \o rest : r \in RecommendationsOfLink(g, links[1]),
                        rest \in RecommendationsOfLinks(g, Tail(links))}

\* LoadBalancer._generate_load_balancing_recommendations: what it may return
GenerateLoadBalancingRecommendations(g, links) ==
  {recs \o (IF links # <<>> THEN <<[type |-> "qos"]>> ELSE <<>>) :
     recs \in RecommendationsOfLinks(g, links)}

(***************************************************************************)
(* Simulation runtime (simulator.py).  A device actor is a record: its     *)
(* flags, its mailbox, its neighbours (a dict kept as the sequence of its  *)
(* entries), its counters and the position pc of its thread.  An actor's   *)
(* config is the parsed device record itself, looked up by name.  The      *)
(* last_seen stamps of neighbour entries, which nothing reads, are left    *)
(* out.                                                                    *)
(***************************************************************************)
\* the clock advances by one update interval at a time
TickStep == UpdateInterval

\* NetworkSimulator.__init__; stopping is the place of stop_simulation in
\* its loop over the devices (0 outside the loop)
NewSimulator == [running |-> FALSE, paused |-> FALSE, stopping |-> 0]

\* NetworkDevice.__init__
NewDevice(cfg) ==
  [name |-> cfg.name, device_type |-> cfg.type, running |-> FALSE, paused |-> FALSE,
   pc |-> "new", message_queue |-> <<>>, neighbors |-> <<>>,
   packets_sent |-> 0, packets_received |-> 0, errors |-> 0,
   uptime |-> 0, start_time |-> NoneInt,
   routing_table |-> <<>>, arp_table |-> <<>>, last_update |-> NoneInt]

NeighborNames(a) == MapSeq(a.neighbors, LAMBDA n : n.name)

\* self.neighbors[name] = {'type': type, ...}
PutNeighbor(neighbors, name, type) ==
  IF \E k \in 1..Len(neighbors) : neighbors[k].name = name
  THEN [k \in 1..Len(neighbors) |->
          IF neighbors[k].name = name THEN [name |-> name, type |-> type] ELSE neighbors[k]]
  ELSE Append(neighbors, [name |-> name, type |-> type])

\* self.arp_table[ip] = source
PutArp(arp_table, ip, source) ==
  IF \E k \in 1..Len(arp_table) : arp_table[k].ip = ip
  THEN [k \in 1..Len(arp_table) |->
          IF arp_table[k].ip = ip THEN [ip |-> ip, source |-> source] ELSE arp_table[k]]
  ELSE Append(arp_table, [ip |-> ip, source |-> source])

\* f"{interface['ip_address']}/{interface['subnet_mask']}": the address
\* itself, not its network, with the mask
NetworkKey(i) == <<i.ip_address, i.subnet_mask>>

\* the (device1, device2) pairs _setup_neighbor_relationships visits, in order
NeighborPairs(data) ==
  LET with_ip == SelectSeq(data.interfaces, HasIp)
      keys == Dedup(MapSeq(with_ip, NetworkKey))
      network_devices(key) ==
        MapSeq(SelectSeq(with_ip, LAMBDA i : NetworkKey(i) = key), LAMBDA i : i.device)
      PairsOf(devs) ==
        Flatten([j \in 1..Len(devs) |-> [k \in 1..Len(devs) |-> <<devs[j], devs[k]>>]])
  IN SelectSeq(Flatten(MapSeq(keys, LAMBDA key : PairsOf(network_devices(key)))),
               LAMBDA p : p[1] # p[2] /\ p[1] \in DeviceNamesOf(data)
                                      /\ p[2] \in DeviceNamesOf(data))

RECURSIVE PutNeighbors(_, _, _)
PutNeighbors(neighbors, names, type) ==
  IF names = <<>> THEN neighbors
  ELSE PutNeighbors(PutNeighbor(neighbors, names[1], type), Tail(names), type)

\* NetworkSimulator._setup_neighbor_relationships
SetupNeighborRelationships(devices, data) ==
  [k \in 1..Len(devices) |->
     [devices[k] EXCEPT !.neighbors =
        PutNeighbors(@, MapSeq(SelectSeq(NeighborPairs(data),
                                         LAMBDA p : p[1] = devices[k].name),
                               LAMBDA p : p[2]),
                     "direct")]]

\* NetworkDevice.send_message_to_neighbor: the message is logged and counted;
\* nothing is put into any queue
SendMessageToNeighbor(a, neighbor_name, message) ==
  [a EXCEPT !.packets_sent = @ + 1]

RECURSIVE SendToEach(_, _, _)
SendToEach(a, names, message) ==
  IF names = <<>> THEN a
  ELSE SendToEach(SendMessageToNeighbor(a, names[1], message), Tail(names), message)

\* NetworkDevice.broadcast_message
BroadcastMessage(a, message) ==
  [SendToEach(a, NeighborNames(a), message) EXCEPT !.packets_sent = @ + Len(a.neighbors)]

RECURSIVE BroadcastEach(_, _)
BroadcastEach(a, messages) ==
  IF messages = <<>> THEN a
  ELSE BroadcastEach(BroadcastMessage(a, messages[1]), Tail(messages))

IsAnnounced(i) == HasIp(i) /\ i.status = "up"

\* the messages of send_arp_requests: one per addressed interface that is up
ArpRequests(a, config, t) ==
  MapSeq(SelectSeq(config.interfaces, IsAnnounced),
         LAMBDA i : [type |-> "arp_request", source |-> a.name, interface |-> i.name,
                     ip |-> i.ip_address, timestamp |-> t])

\* the messages of start_routing_protocols: OSPF hello or BGP open
ProtocolMessages(a, config, t) ==
  MapSeq(SelectSeq(config.routing_protocols, LAMBDA r : r.protocol \in {"ospf", "bgp"}),
         LAMBDA r : [type |-> IF r.protocol = "ospf" THEN "ospf_hello" ELSE "bgp_open",
                     source |-> a.name, id |-> r.id, timestamp |-> t])

\* the message of discover_neighbors
DiscoveryMessage(a, t) ==
  [type |-> "neighbor_discovery", source |-> a.name, device_type |-> a.device_type,
   timestamp |-> t]

\* NetworkDevice.day1_initialization
Day1Initialization(a, config, t) ==
  LET arp == BroadcastEach(a, ArpRequests(a, config, t))
      routing == BroadcastEach(arp, ProtocolMessages(arp, config, t))
  IN BroadcastMessage(routing, DiscoveryMessage(routing, t))

\* The slip of handling a message without looking at who sent it.
HandleMessageFromAnyone(a, message) ==
  IF message.type \notin {"arp_request", "ospf_hello", "bgp_open", "neighbor_discovery"}
  THEN a
  ELSE IF message.type = "arp_request"
  THEN [a EXCEPT !.arp_table = PutArp(@, message.ip, message.source)]
  ELSE [a EXCEPT !.neighbors =
          PutNeighbor(@, message.source,
                      IF message.type = "ospf_hello" THEN "ospf"
                      ELSE IF message.type = "bgp_open" THEN "bgp" ELSE "general")]

\* NetworkDevice.handle_message
HandleMessage(a, message) ==
  IF message.type \notin {"arp_request", "ospf_hello", "bgp_open", "neighbor_discovery"}
     \/ message.source = a.name
  THEN a
  ELSE IF message.type = "arp_request"
  THEN [a EXCEPT !.arp_table = PutArp(@, message.ip, message.source)]
  ELSE [a EXCEPT !.neighbors =
          PutNeighbor(@, message.source,
                      IF message.type = "ospf_hello" THEN "ospf"
                      ELSE IF message.type = "bgp_open" THEN "bgp" ELSE "general")]

\* The slip of draining the mailbox newest message first.
RECURSIVE ProcessMessagesNewestFirst(_)
ProcessMessagesNewestFirst(a) ==
  IF a.message_queue = <<>> THEN a
  ELSE ProcessMessagesNewestFirst(
         [HandleMessage([a EXCEPT !.message_queue = SubSeq(@, 1, Len(@) - 1)],
                        a.message_queue[Len(a.message_queue)])
            EXCEPT !.packets_received = @ + 1])

\* NetworkDevice.process_messages: the mailbox is drained in order
RECURSIVE ProcessMessages(_)
ProcessMessages(a) ==
  IF a.message_queue = <<>> THEN a
  ELSE ProcessMessages(
         [HandleMessage([a EXCEPT !.message_queue = Tail(@)], a.message_queue[1])
            EXCEPT !.packets_received = @ + 1])

\* NetworkDevice.send_periodic_updates
SendPeriodicUpdates(a, t) ==
  IF a.last_update # NoneInt /\ t - a.last_update < UpdateInterval THEN a
  ELSE SendToEach([a EXCEPT !.last_update = t], NeighborNames(a),
                  [type |-> "routing_update", source |-> a.name,
                   routing_table |-> a.routing_table, timestamp |-> t])

\* the body of the loop of NetworkDevice.run
LoopBody(a, t) ==
  [SendPeriodicUpdates(ProcessMessages(a), t) EXCEPT !.uptime = t - a.start_time]

\* device.start() for each device in turn; starting a thread a second time
\* raises and ends the loop
RECURSIVE StartEach(_, _)
StartEach(devices, k) ==
  IF k > Len(devices) \/ devices[k].pc # "new" THEN devices
  ELSE StartEach([devices EXCEPT ![k].pc = "started"], k + 1)

\* NetworkDevice.inject_fault on the device's config
FaultedConfigAllDown(config, fault_type, interface) ==
  IF fault_type = "interface_down"
  THEN [config EXCEPT !.interfaces =
          [k \in 1..Len(@) |-> IF interface \in {@[j].name : j \in 1..Len(@)}
                               THEN [@[k] EXCEPT !.status = "down"] ELSE @[k]]]
  ELSE config

FaultedConfig(config, fault_type, interface) ==
  IF fault_type = "interface_down"
  THEN [config EXCEPT !.interfaces =
          [k \in 1..Len(@) |-> IF @[k].name = interface
                               THEN [@[k] EXCEPT !.status = "down"] ELSE @[k]]]
  ELSE config

\* the configuration dumps simulated: R1 with one port up and one shut down,
\* and R2 either with the very address of R1's first port or with another
\* address of the same /24
SimInterfaces(d) ==
  IF d = R1 THEN
    {<<Ifc("Gi0/0", <<10, 0, 0, 1>>, Mask24, NoneInt, DefaultMtu, NoneInt, "up"),
       Ifc("Gi0/1", <<10, 0, 1, 1>>, Mask24, NoneInt, DefaultMtu, NoneInt, "down")>>}
  ELSE
    {<<Ifc("Se0/0", <<10, 0, 0, 1>>, Mask24, NoneInt, DefaultMtu, NoneInt, "up")>>,
     <<Ifc("Se0/0", <<10, 0, 0, 2>>, Mask24, NoneInt, DefaultMtu, NoneInt, "up")>>}

SimNames == {R1, R2}

SimConfigs ==
  UNION {{DeviceInfo(d, ifs, TopologyProtocols(d), <<>>) : ifs \in SimInterfaces(d)} :
           d \in SimNames}

(***************************************************************************)
(* Actions.                                                                *)
(***************************************************************************)
Init ==
  /\ parsed_data = [devices |-> <<>>, interfaces |-> <<>>]
  /\ graph = EmptyGraph
  /\ hierarchy = EmptyHierarchy
  /\ builds = 0
  /\ alt_paths = <<>>
  /\ issues = <<>>
  /\ warnings = <<>>
  /\ validations = 0
  /\ validation_result = <<>>
  /\ validation_error = <<>>
  /\ overloaded_links = <<>>
  /\ load_analysis = <<>>
  /\ analyses = 0
  /\ sim = NewSimulator
  /\ actors = <<>>
  /\ now = 0
  /\ calls = 0
  /\ failed = {}
  /\ starts = 0

\* no consumer of the parsed data has run yet
StillParsing ==
  /\ builds = 0 /\ alt_paths = <<>>
  /\ validations = 0
  /\ analyses = 0
  /\ actors = <<>>

\* ConfigParser.parse_device_config for the next device directory
ParseDevice(cfg) ==
  /\ StillParsing
  /\ Len(parsed_data.devices) < MaxDevices
  /\ cfg.name \notin DeviceNamesOf(parsed_data)
  /\ parsed_data' = ParseDeviceConfig(parsed_data, cfg)
  /\ UNCHANGED <<topoVars, validatorVars, loadVars, simVars>>

\* TopologyBuilder.build_topology (self.shortest_paths, which no operation
\* reads, is not kept)
BuildTopology ==
  /\ builds < MaxBuilds
  /\ graph' = BuiltGraph(graph, parsed_data)
  /\ hierarchy' = DetermineHierarchy(hierarchy, graph')
  /\ builds' = builds + 1
  /\ UNCHANGED <<parsed_data, alt_paths, validatorVars, loadVars, simVars>>

\* TopologyBuilder.get_alternative_paths(source, target, k).  The call leaves
\* the engine as it was, so one call per behaviour reaches every result.
GetAlternativePaths(source, target, k) ==
  /\ alt_paths = <<>>
  /\ \E paths \in AlternativePaths(graph, source, target, k) :
       alt_paths' = <<[source |-> source, target |-> target, k |-> k, paths |-> paths]>>
  /\ UNCHANGED <<parsed_data, graph, hierarchy, builds, validatorVars, loadVars, simVars>>

\* ConfigValidator.validate_configuration(data, topology).  None of the
\* checks is wrapped in a try: a KeyError of _suggest_node_aggregation, the
\* only check that looks a graph node up in the devices passed, leaves the
\* call at that point, with what was appended so far kept in the validator
\* and nothing returned.
ValidateConfiguration(data) ==
  /\ validations < MaxValidations
  /\ validations' = validations + 1
  /\ issues' = issues \o NewIssues(data, graph)
  /\ IF FirstRaise(graph, data.devices) = 0
     THEN /\ warnings' = warnings \o NewWarnings(data, graph)
          /\ validation_result' = <<[issues |-> issues', warnings |-> warnings',
                                     total_issues |-> Len(issues'),
                                     total_warnings |-> Len(warnings')]>>
          /\ validation_error' = <<>>
     ELSE /\ warnings' = warnings \o WarningsBeforeAggregation(data, graph)
                         \o SuggestNodeAggregationUpTo(graph, data.devices,
                                                       FirstRaise(graph, data.devices) - 1)
          /\ validation_result' = validation_result
          /\ validation_error' = <<"KeyError">>
  /\ UNCHANGED <<parsed_data, topoVars, loadVars, simVars>>

\* LoadBalancer.analyze_traffic_load(topology) with the default traffic
\* assumptions, which the estimate does not read
AnalyzeTrafficLoad ==
  /\ analyses < MaxAnalyses
  /\ overloaded_links' = overloaded_links \o NewOverloadedLinks(graph)
  /\ \E recommendations \in GenerateLoadBalancingRecommendations(graph, overloaded_links') :
       load_analysis' = <<[link_analysis |-> DictOfEntries(AnalyzedEdges(graph)),
                           overloaded_links |-> overloaded_links',
                           recommendations |-> recommendations]>>
  /\ analyses' = analyses + 1
  /\ UNCHANGED <<parsed_data, topoVars, validatorVars, simVars>>

\* NetworkSimulator.load_topology(parsed_data) on a fresh simulator
LoadTopology ==
  /\ actors = <<>>
  /\ parsed_data.devices # <<>>
  /\ actors' = SetupNeighborRelationships(MapSeq(parsed_data.devices, NewDevice), parsed_data)
  /\ UNCHANGED <<parsed_data, topoVars, validatorVars, loadVars, sim, now, calls, failed, starts>>

\* the coordinator is free to make its next call
CoordinatorIdle ==
  /\ actors # <<>>
  /\ sim.stopping = 0
  /\ calls < MaxCalls

\* start_simulation without the early return of line 324: every actor's
\* thread is started again
StartSimulationRestarts ==
  /\ CoordinatorIdle
  /\ calls' = calls + 1
  /\ sim' = [sim EXCEPT !.running = TRUE]
  /\ actors' = [k \in 1..Len(actors) |-> [actors[k] EXCEPT !.pc = "started"]]
  /\ starts' = starts + 1
  /\ UNCHANGED <<parsed_data, topoVars, validatorVars, loadVars, now, failed>>

\* NetworkSimulator.start_simulation
StartSimulation ==
  /\ CoordinatorIdle
  /\ calls' = calls + 1
  /\ IF sim.running
     THEN UNCHANGED <<sim, actors>>
     ELSE /\ sim' = [sim EXCEPT !.running = TRUE]
          /\ actors' = StartEach(actors, 1)
  /\ starts' = starts + 1
  /\ UNCHANGED <<parsed_data, topoVars, validatorVars, loadVars, now, failed>>

\* NetworkSimulator.pause_simulation
PauseSimulation ==
  /\ CoordinatorIdle
  /\ calls' = calls + 1
  /\ sim' = [sim EXCEPT !.paused = TRUE]
  /\ actors' = [k \in 1..Len(actors) |-> [actors[k] EXCEPT !.paused = TRUE]]
  /\ UNCHANGED <<parsed_data, topoVars, validatorVars, loadVars, now, failed, starts>>

\* NetworkSimulator.resume_simulation
ResumeSimulation ==
  /\ CoordinatorIdle
  /\ calls' = calls + 1
  /\ sim' = [sim EXCEPT !.paused = FALSE]
  /\ actors' = [k \in 1..Len(actors) |-> [actors[k] EXCEPT !.paused = FALSE]]
  /\ UNCHANGED <<parsed_data, topoVars, validatorVars, loadVars, now, failed, starts>>

\* device.stop() followed by the call of device.join(timeout=5) for the k-th
\* device: joining a thread that was never started raises and ends the loop
StopDevice(k) ==
  /\ actors' = [actors EXCEPT ![k].running = FALSE]
  /\ sim' = [sim EXCEPT !.running = FALSE,
                        !.stopping = IF actors[k].pc = "new" THEN 0 ELSE k]

\* NetworkSimulator.stop_simulation, up to its first join
StopSimulation ==
  /\ CoordinatorIdle
  /\ calls' = calls + 1
  /\ StopDevice(1)
  /\ UNCHANGED <<parsed_data, topoVars, validatorVars, loadVars, now, failed, starts>>

\* device.join(timeout=5) returns, the thread having ended or the timeout
\* having passed, and stop_simulation goes on with the next device
JoinReturns ==
  /\ sim.stopping > 0
  /\ IF sim.stopping < Len(actors)
     THEN StopDevice(sim.stopping + 1)
     ELSE sim' = [sim EXCEPT !.stopping = 0] /\ UNCHANGED actors
  /\ UNCHANGED <<parsed_data, topoVars, validatorVars, loadVars, now, calls, failed, starts>>

\* NetworkSimulator.inject_fault(device_name, fault_type, interface=interface)
InjectFault(device_name, fault_type, interface) ==
  /\ CoordinatorIdle
  /\ calls' = calls + 1
  /\ parsed_data' =
       [parsed_data EXCEPT !.devices =
          [k \in 1..Len(@) |-> IF @[k].name = device_name
                               THEN FaultedConfig(@[k], fault_type, interface) ELSE @[k]]]
  /\ actors' = [k \in 1..Len(actors) |->
                  IF actors[k].name = device_name /\ fault_type = "device_failure"
                  THEN [actors[k] EXCEPT !.running = FALSE] ELSE actors[k]]
  /\ failed' = IF fault_type = "device_failure" /\ device_name \in DeviceNamesOf(parsed_data)
               THEN failed \cup {device_name} ELSE failed
  /\ UNCHANGED <<topoVars, validatorVars, loadVars, sim, now, starts>>

\* time passes, one update interval at a time; every thread executes its
\* first statement within the interval in which it was started
Tick ==
  /\ actors # <<>>
  /\ \A k \in 1..Len(actors) : actors[k].pc \notin {"new", "started"}
  /\ now + TickStep <= MaxTime
  /\ now' = now + TickStep
  /\ UNCHANGED <<parsed_data, topoVars, validatorVars, loadVars, sim, actors, calls, failed, starts>>

\* the thread of the k-th device is at position pc
ThreadAt(k, pc) == k \in 1..Len(actors) /\ actors[k].pc = pc

ThreadFrame == UNCHANGED <<parsed_data, topoVars, validatorVars, loadVars, sim, now, calls, failed, starts>>

\* NetworkDevice.run: self.running = True; start_time = time.time()
RunSetRunning(k) ==
  /\ ThreadAt(k, "started")
  /\ actors' = [actors EXCEPT ![k].running = TRUE, ![k].start_time = now, ![k].pc = "day1"]
  /\ ThreadFrame

\* NetworkDevice.run: self.day1_initialization()
RunDay1(k) ==
  /\ ThreadAt(k, "day1")
  /\ actors' = [actors EXCEPT ![k] =
                  [Day1Initialization(@, DeviceRecord(parsed_data.devices, @.name), now)
                     EXCEPT !.pc = "test"]]
  /\ ThreadFrame

\* NetworkDevice.run: while self.running
RunTest(k) ==
  /\ ThreadAt(k, "test")
  /\ actors' = [actors EXCEPT ![k].pc = IF actors[k].running THEN "check" ELSE "done"]
  /\ ThreadFrame

\* The slip of waiting out a pause inside the loop body: a paused thread
\* stays at the paused test instead of going back to the loop condition.
RunCheckWaitsInPlace(k) ==
  /\ ThreadAt(k, "check")
  /\ actors' = [actors EXCEPT ![k].pc = IF actors[k].paused THEN "check" ELSE "body"]
  /\ ThreadFrame

\* The slip of re-initializing after a pause: a paused thread goes back to
\* the Day-1 initialization.
RunCheckRepeatsDay1(k) ==
  /\ ThreadAt(k, "check")
  /\ actors' = [actors EXCEPT ![k].pc = IF actors[k].paused THEN "day1" ELSE "body"]
  /\ ThreadFrame

\* NetworkDevice.run: if not self.paused, else the sleep and the next turn
RunCheck(k) ==
  /\ ThreadAt(k, "check")
  /\ actors' = [actors EXCEPT ![k].pc = IF actors[k].paused THEN "test" ELSE "body"]
  /\ ThreadFrame

\* NetworkDevice.run: the body of the loop, then the sleep and the next turn
RunBody(k) ==
  /\ ThreadAt(k, "body")
  /\ actors' = [actors EXCEPT ![k] = [LoopBody(@, now) EXCEPT !.pc = "test"]]
  /\ ThreadFrame

ThreadStep(k) ==
  RunSetRunning(k) \/ RunDay1(k) \/ RunTest(k) \/ RunCheck(k) \/ RunBody(k)

Next ==
  \/ \E cfg \in TopologyConfigs : ParseDevice(cfg)
  \/ BuildTopology
  \/ \E source \in NodeSet(graph) \cup {Ghost}, target \in NodeSet(graph) \cup {Ghost},
        k \in 0..MaxK : GetAlternativePaths(source, target, k)

Spec == Init /\ [][Next]_vars

\* the validator run on a parsed and possibly built configuration
NextValidator ==
  \/ \E cfg \in ValidatorConfigs : ParseDevice(cfg)
  \/ BuildTopology
  \/ ValidateConfiguration(parsed_data)

SpecValidator == Init /\ [][NextValidator]_vars

\* the data a caller of validate_configuration holds: the parser's result, or
\* the result of a parse that saw fewer of the device directories than the
\* one the topology was built from
ValidatorArguments == {ParsedPrefix(parsed_data, n) : n \in 0..Len(parsed_data.devices)}

\* the validator called with data and a topology of the caller's choice
NextValidatorCalls ==
  \/ \E cfg \in ValidatorConfigs : ParseDevice(cfg)
  \/ BuildTopology
  \/ \E data \in ValidatorArguments : ValidateConfiguration(data)

SpecValidatorCalls == Init /\ [][NextValidatorCalls]_vars

\* the dumps the load estimator is run on: those of the topology, and R-3 on
\* the 10.0.1.0/24 segment of R1, Switch0, PC0 and Server1
LoadConfigs ==
  TopologyConfigs
    \cup {DeviceInfo(RDash3,
                     <<Ifc("Gi0/0", <<10, 0, 1, 5>>, Mask24, 10000, DefaultMtu, NoneInt, "up")>>,
                     <<>>, <<>>)}

\* the load estimator run on a parsed and possibly built configuration
NextLoad ==
  \/ \E cfg \in LoadConfigs : ParseDevice(cfg)
  \/ BuildTopology
  \/ AnalyzeTrafficLoad

SpecLoad == Init /\ [][NextLoad]_vars

\* the fault injections tried: a port that is up, one that is already down,
\* one that does not exist, a device failure, on devices that exist and on
\* one that does not
FaultInterfaces == {"Gi0/0", "Gi0/1", "Gi9/9"}

\* the simulator loaded with a parsed configuration and driven by its caller
NextSim ==
  \/ \E cfg \in SimConfigs : ParseDevice(cfg)
  \/ LoadTopology
  \/ StartSimulation
  \/ PauseSimulation
  \/ ResumeSimulation
  \/ StopSimulation
  \/ JoinReturns
  \/ \E device_name \in SimNames \cup {Ghost}, interface \in FaultInterfaces :
       InjectFault(device_name, "interface_down", interface)
  \/ \E device_name \in SimNames \cup {Ghost} :
       InjectFault(device_name, "device_failure", "Gi0/0")
  \/ Tick
  \/ \E k \in 1..MaxDevices : RunSetRunning(k)
  \/ \E k \in 1..MaxDevices : RunDay1(k)
  \/ \E k \in 1..MaxDevices : RunTest(k)
  \/ \E k \in 1..MaxDevices : RunCheck(k)
  \/ \E k \in 1..MaxDevices : RunBody(k)

SpecSim == Init /\ [][NextSim]_vars

(***************************************************************************)
(* The mailbox.  No operation of the simulator puts a message into a       *)
(* message_queue, so the drain is explored on mailboxes filled before the  *)
(* thread runs, with messages of the shapes the senders build.             *)
(***************************************************************************)
\* the address the ARP requests of the mailbox announce
MailboxIp == <<10, 0, 0, 9>>

\* the messages send_arp_requests, start_ospf, start_bgp, discover_neighbors
\* and send_periodic_updates build, from R1 itself, R2 and Switch0;
\* routing_update is a kind handle_message has no branch for
MailboxMessages ==
  UNION {{[type |-> "arp_request", source |-> src, interface |-> "Gi0/0",
           ip |-> MailboxIp, timestamp |-> 0],
          [type |-> "ospf_hello", source |-> src, id |-> 1, timestamp |-> 0],
          [type |-> "bgp_open", source |-> src, id |-> 65001, timestamp |-> 0],
          [type |-> "neighbor_discovery", source |-> src, device_type |-> "router",
           timestamp |-> 0],
          [type |-> "routing_update", source |-> src, routing_table |-> <<>>,
           timestamp |-> 0]} : src \in {R1, R2, Switch0}}

\* the mailboxes explored: up to MaxMailbox messages in arrival order
Mailboxes == UNION {[1..n -> MailboxMessages] : n \in 0..MaxMailbox}

\* R1 loaded alone and started, its mailbox filled, its thread not yet at the
\* first statement of run
InitMailbox ==
  /\ \E cfg \in {c \in SimConfigs : c.name = R1} :
       /\ parsed_data = ParseDeviceConfig([devices |-> <<>>, interfaces |-> <<>>], cfg)
       /\ \E q \in Mailboxes :
            actors = <<[NewDevice(cfg) EXCEPT !.pc = "started", !.message_queue = q]>>
  /\ graph = EmptyGraph
  /\ hierarchy = EmptyHierarchy
  /\ builds = 0
  /\ alt_paths = <<>>
  /\ issues = <<>>
  /\ warnings = <<>>
  /\ validations = 0
  /\ validation_result = <<>>
  /\ validation_error = <<>>
  /\ overloaded_links = <<>>
  /\ load_analysis = <<>>
  /\ analyses = 0
  /\ sim = [NewSimulator EXCEPT !.running = TRUE]
  /\ now = 0
  /\ calls = 1
  /\ failed = {}
  /\ starts = 1

\* the thread of R1 and the clock
NextMailbox ==
  \/ ThreadStep(1)
  \/ Tick

SpecMailbox == InitMailbox /\ [][NextMailbox]_vars

\* every started thread keeps being scheduled
SpecSimFair == SpecSim /\ \A k \in 1..MaxDevices : WF_vars(ThreadStep(k))

(***************************************************************************)
(* Vocabulary of the properties.                                           *)
(***************************************************************************)
FlatSet == Range(parsed_data.interfaces)
Built == builds >= 1

\* the network of an interface: its address under its own mask
OwnNetwork(i) == NetworkAddress(i.ip_address, i.subnet_mask)

\* d1 and d2 have addressed interfaces with the same network address
ShareOwnNetwork(d1, d2) ==
  \E i1 \in FlatSet, i2 \in FlatSet :
    /\ i1.device = d1 /\ i2.device = d2
    /\ i1.ip_address # None /\ i2.ip_address # None
    /\ i1.subnet_mask # None /\ i2.subnet_mask # None
    /\ OwnNetwork(i1) = OwnNetwork(i2)

\* some interface of one of d1, d2 precedes an interface of the other in the
\* input order and the later address lies in the earlier one's network, taken
\* under the earlier one's mask
ShareFirstMaskNetwork(d1, d2) ==
  \E p \in 1..Len(parsed_data.interfaces), q \in 1..Len(parsed_data.interfaces) :
    LET i1 == parsed_data.interfaces[p]
        i2 == parsed_data.interfaces[q]
    IN /\ p < q
       /\ {i1.device, i2.device} = {d1, d2}
       /\ i1.ip_address # None /\ i2.ip_address # None
       /\ i1.subnet_mask # None
       /\ NetworkAddress(i1.ip_address, i1.subnet_mask)
            = NetworkAddress(i2.ip_address, i1.subnet_mask)

HasEdge(d1, d2) == {d1, d2} \in EdgeSet(graph)

\* the adjacency table of the specification, on unordered kind pairs
AllowedKinds(k1, k2) ==
  \/ {k1, k2} = {"router"}
  \/ {k1, k2} = {"router", "switch"}
  \/ \E end \in {"pc", "server", "laptop", "unknown"} : {k1, k2} = {"switch", end}

InterfacesOfDevice(d) == {i \in FlatSet : i.device = d}

\* R1, Switch0 and PC0 chained: R1 and Switch0 meet on 10.0.0.0/24 only,
\* Switch0 and PC0 on 10.0.1.0/24
ChainInput ==
  /\ DeviceNamesOf(parsed_data) = {R1, Switch0, PC0}
  /\ {OwnNetwork(i) : i \in InterfacesOfDevice(R1)} = {<<10, 0, 0, 0>>}
  /\ {OwnNetwork(i) : i \in InterfacesOfDevice(Switch0)} = {<<10, 0, 0, 0>>, <<10, 0, 1, 0>>}
  /\ {OwnNetwork(i) : i \in InterfacesOfDevice(PC0)} = {<<10, 0, 1, 0>>}

(***************************************************************************)
(* C1                                                                      *)
(***************************************************************************)
\* C1 as stated: after BuildTopology, two distinct devices with no common IP
\* network (each interface's network taken under its own mask) are not joined
\* by an edge.
C1_NoEdgeWithoutOwnNetwork ==
  Built => \A d1 \in DeviceNames, d2 \in DeviceNames :
             (d1 # d2 /\ ~ShareOwnNetwork(d1, d2)) => ~HasEdge(d1, d2)

\* C1 amended: after BuildTopology, two distinct devices are not joined by an
\* edge unless an interface of one precedes an interface of the other in the
\* input order, both addressed, and the two addresses have the same network
\* address under the earlier interface's mask.
C1_NoEdgeWithoutFirstMaskNetwork ==
  Built => \A d1 \in DeviceNames, d2 \in DeviceNames :
             (d1 # d2 /\ ~ShareFirstMaskNetwork(d1, d2)) => ~HasEdge(d1, d2)

\* two devices of connectable kinds, both addressed, built, with no network in
\* common under the earlier mask and no edge
C1_Witness ==
  /\ Built
  /\ \E d1 \in NodeSet(graph), d2 \in NodeSet(graph) :
       /\ d1 # d2
       /\ InterfacesOfDevice(d1) # {} /\ InterfacesOfDevice(d2) # {}
       /\ ShouldConnect(GetDeviceType(d1), GetDeviceType(d2))
       /\ ~ShareFirstMaskNetwork(d1, d2)
       /\ ~HasEdge(d1, d2)

(***************************************************************************)
(* C2                                                                      *)
(***************************************************************************)
\* C2: after BuildTopology every edge joins two distinct devices whose kinds
\* are router-router, router-switch or switch-end device; and the chain
\* R1 - Switch0 - PC0 gives exactly the edges R1-Switch0 and Switch0-PC0.
C2_OnlyAllowedKindPairs ==
  Built =>
    /\ \A e \in EdgeSet(graph) :
         \E d1 \in NodeSet(graph), d2 \in NodeSet(graph) :
           /\ d1 # d2 /\ e = {d1, d2}
           /\ AllowedKinds(GetDeviceType(d1), GetDeviceType(d2))
    /\ ChainInput => EdgeSet(graph) = {{R1, Switch0}, {Switch0, PC0}}

\* built: a router and a pc on one network and not joined, beside the chain's
\* two edges
C2_Witness ==
  /\ Built
  /\ ChainInput
  /\ Cardinality(EdgeSet(graph)) = 2
  /\ ~HasEdge(R1, PC0)

\* a router and a pc share 10.0.1.0/24 and are not joined
C2_WitnessCoLocated ==
  /\ Built
  /\ ShareFirstMaskNetwork(R1, PC0)
  /\ ~HasEdge(R1, PC0)

(***************************************************************************)
(* C3                                                                      *)
(***************************************************************************)
\* the pairs of flattened interfaces an edge's interface names stand for
Participants(e) ==
  {pair \in FlatSet \X FlatSet :
     /\ {pair[1].device, pair[2].device} = e
     /\ pair[1].interface = graph.edges[e].interface1
     /\ pair[2].interface = graph.edges[e].interface2}

UnsetReplaced(bw) == IF bw = NoneInt THEN 100000 ELSE bw
UnsetOrZeroReplaced(bw) == IF bw = NoneInt \/ bw = 0 THEN 100000 ELSE bw

\* C3 as stated: every edge's bandwidth is the minimum of its two participating
\* interfaces' bandwidths, an unset one counting as 100000.
C3_BandwidthIsMinUnsetReplaced ==
  Built => \A e \in EdgeSet(graph) :
             /\ Participants(e) # {}
             /\ \A pair \in Participants(e) :
                  graph.edges[e].bandwidth
                    = Min(UnsetReplaced(pair[1].bandwidth), UnsetReplaced(pair[2].bandwidth))

\* C3 amended: every edge's bandwidth is the minimum of its two participating
\* interfaces' bandwidths, an unset or zero one counting as 100000.
C3_BandwidthIsMinUnsetOrZeroReplaced ==
  Built => \A e \in EdgeSet(graph) :
             /\ Participants(e) # {}
             /\ \A pair \in Participants(e) :
                  graph.edges[e].bandwidth
                    = Min(UnsetOrZeroReplaced(pair[1].bandwidth),
                          UnsetOrZeroReplaced(pair[2].bandwidth))

\* an edge between a set bandwidth and a different, larger one, and an edge
\* with an unset side
C3_Witness ==
  /\ Built
  /\ \E e \in EdgeSet(graph) : \E pair \in Participants(e) :
       /\ pair[1].bandwidth > 0 /\ pair[2].bandwidth > 0
       /\ pair[1].bandwidth # pair[2].bandwidth
  /\ \E e \in EdgeSet(graph) : \E pair \in Participants(e) :
       pair[1].bandwidth = NoneInt \/ pair[2].bandwidth = NoneInt

(***************************************************************************)
(* C4                                                                      *)
(***************************************************************************)
Occurrences(list, x) == Cardinality({k \in 1..Len(list) : list[k] = x})

TierCount(x) ==
  Occurrences(hierarchy.core, x) + Occurrences(hierarchy.distribution, x)
    + Occurrences(hierarchy.access, x)

\* C4: after BuildTopology on a fresh engine every graph node is in exactly one
\* tier, once, and the tiers hold graph nodes only.
C4_HierarchyPartition ==
  builds = 1 =>
    /\ \A n \in NodeSet(graph) : TierCount(n) = 1
    /\ Range(hierarchy.core) \cup Range(hierarchy.distribution)
         \cup Range(hierarchy.access) \subseteq NodeSet(graph)

\* a first build of three devices that fills all three tiers
C4_Witness ==
  /\ builds = 1
  /\ Len(graph.nodes) = 3
  /\ Len(hierarchy.core) = 1
  /\ Len(hierarchy.distribution) = 1
  /\ Len(hierarchy.access) = 1

(***************************************************************************)
(* C5                                                                      *)
(***************************************************************************)
\* C5 as stated: for the chain R1 - Switch0 - PC0 the hierarchy has R1 in core.
C5_ChainPlacesR1InCore ==
  (builds = 1 /\ ChainInput) => R1 \in Range(hierarchy.core)

\* C5 amended: for the chain R1 - Switch0 - PC0 the core tier is Switch0 alone,
\* the device of highest degree; R1 is in distribution or access.
C5_ChainPlacesSwitchInCore ==
  (builds = 1 /\ ChainInput) =>
    /\ hierarchy.core = <<Switch0>>
    /\ R1 \in Range(hierarchy.distribution) \cup Range(hierarchy.access)

\* the chain built, with R1 listed first among the devices
C5_Witness ==
  /\ builds = 1
  /\ ChainInput
  /\ graph.nodes[1] = R1
  /\ Cardinality(EdgeSet(graph)) = 2

(***************************************************************************)
(* C7                                                                      *)
(***************************************************************************)
\* p is a simple path of the graph from source to target
IsSimplePath(p, source, target) ==
  /\ Len(p) >= 1
  /\ p[1] = source /\ p[Len(p)] = target
  /\ \A k \in 1..Len(p) : p[k] \in NodeSet(graph)
  /\ \A j \in 1..Len(p), k \in 1..Len(p) : j # k => p[j] # p[k]
  /\ \A k \in 1..(Len(p) - 1) : HasEdge(p[k], p[k + 1])

\* every simple path of the graph from source to target
AllSimplePaths(source, target) ==
  {p \in UNION {[1..n -> NodeSet(graph)] : n \in 1..Len(graph.nodes)} :
     IsSimplePath(p, source, target)}

\* C7: the answer to AlternatePaths(source, target, k) has at most k paths,
\* all distinct simple paths from source to target, in non-decreasing length,
\* none longer than a simple path left out, all of them when fewer than k
\* exist, at least two when two exist and k >= 2, and none when no path
\* exists or an endpoint is not a node.
C7_AlternatePaths ==
  \A c \in Range(alt_paths) :
    LET all == AllSimplePaths(c.source, c.target) IN
    /\ Len(c.paths) <= c.k
    /\ \A j \in 1..Len(c.paths) : c.paths[j] \in all
    /\ \A i \in 1..Len(c.paths), j \in 1..Len(c.paths) :
         /\ i < j => Len(c.paths[i]) <= Len(c.paths[j])
         /\ i # j => c.paths[i] # c.paths[j]
    /\ \A x \in all \ Range(c.paths) : \A j \in 1..Len(c.paths) :
         Len(c.paths[j]) <= Len(x)
    /\ Len(c.paths) = Min(c.k, Cardinality(all))
    /\ (Cardinality(all) > 1 /\ c.k >= 2) => Len(c.paths) >= 2
    /\ (all = {} \/ c.source \notin NodeSet(graph) \/ c.target \notin NodeSet(graph))
         => c.paths = <<>>

\* two answers of different lengths, the shorter first
C7_Witness ==
  \E c \in Range(alt_paths) :
    /\ Len(c.paths) = 2
    /\ Len(c.paths[1]) < Len(c.paths[2])

\* an answer cut to k, and an empty answer for an absent endpoint
C7_WitnessCut ==
  \E c \in Range(alt_paths) :
    /\ c.k = 1
    /\ Cardinality(AllSimplePaths(c.source, c.target)) = 2
    /\ Len(c.paths) = 1

(***************************************************************************)
(* C6                                                                      *)
(***************************************************************************)
\* the (IP, VLAN) groups of the addressed interfaces
IpVlanGroups == {IpVlanKey(i) : i \in {x \in FlatSet : HasIp(x)}}

\* the devices owning the interfaces of a group
OwnersOfGroup(key) == {i.device : i \in {x \in FlatSet : HasIp(x) /\ IpVlanKey(x) = key}}

\* the duplicate_ip issues raised about a group, by their place in the list
DuplicateIssuesAbout(key) ==
  {k \in 1..Len(issues) : issues[k].type = "duplicate_ip" /\ issues[k].about = key}

\* C6: after one validation there is exactly one high-severity duplicate_ip
\* issue for every (IP, VLAN) group whose interfaces belong to more than one
\* device, naming those devices, and none for any other group.
C6_DuplicateIpPerMultiDeviceGroup ==
  validations = 1 =>
    \A key \in IpVlanGroups :
      IF Cardinality(OwnersOfGroup(key)) > 1
      THEN /\ Cardinality(DuplicateIssuesAbout(key)) = 1
           /\ \A k \in DuplicateIssuesAbout(key) :
                /\ issues[k].severity = "high"
                /\ Range(issues[k].affected_devices) = OwnersOfGroup(key)
      ELSE DuplicateIssuesAbout(key) = {}

(***************************************************************************)
(* C8                                                                      *)
(***************************************************************************)
\* the entry an analysis holds for a link
EntryOfLink(analysis, link) ==
  analysis.link_analysis[
    CHOOSE k \in 1..Len(analysis.link_analysis) : analysis.link_analysis[k].link = link]

\* the entries of an analysis of graph g are those the claim describes
EntriesClassified(analysis, g) ==
  \A e \in Range(EdgeList(g)) :
    LET a == EntryOfLink(analysis, LinkId(e[1], e[2])) IN
    /\ a.bandwidth = g.edges[{e[1], e[2]}].bandwidth
    /\ a.bandwidth > 0
    /\ a.demand = EstimateLinkDemand(e[1], e[2])
    /\ a.utilization = <<a.demand, a.bandwidth>>
    /\ a.status \in {"overloaded", "normal"}
    /\ a.status = "overloaded" <=> 10 * a.demand > 8 * a.bandwidth

\* C8: an analysis gives every edge of the graph an entry whose utilization
\* is demand / bandwidth and whose status is overloaded exactly when
\* 10 * demand > 8 * bandwidth with bandwidth > 0, normal otherwise; a
\* bandwidth of 0 gives utilization 0 and normal; bandwidth 10000 is
\* overloaded at demand 9000 and normal at demands 5000 and 8000.
C8_OverloadedIffAboveFourFifths ==
  [][analyses' = analyses + 1 =>
       /\ Len(load_analysis'[1].link_analysis) = Cardinality(EdgeSet(graph))
       /\ EntriesClassified(load_analysis'[1], graph)
       /\ \A demand \in {BaseDemand, BaseDemand + RouterDemand} :
            /\ Utilization(demand, 0) = <<0, 1>>
            /\ ~IsOverloaded(Utilization(demand, 0))
       /\ IsOverloaded(Utilization(9000, 10000))
       /\ ~IsOverloaded(Utilization(5000, 10000))
       /\ ~IsOverloaded(Utilization(8000, 10000))]_vars

\* an analysis has met a link loaded to exactly four fifths, one above and
\* one below
C8_Witness ==
  /\ load_analysis # <<>>
  /\ \E k \in 1..Len(load_analysis[1].link_analysis) :
       LET a == load_analysis[1].link_analysis[k] IN
       10 * a.demand = 8 * a.bandwidth /\ a.status = "normal"
  /\ \E k \in 1..Len(load_analysis[1].link_analysis) :
       load_analysis[1].link_analysis[k].status = "overloaded"

(***************************************************************************)
(* C9                                                                      *)
(***************************************************************************)
IsActor(name) == \E k \in 1..Len(actors) : actors[k].name = name

ActorNamed(name) == actors[CHOOSE k \in 1..Len(actors) : actors[k].name = name]

\* the addresses a device announces in its Day-1 ARP requests
AnnouncedIps(name) ==
  {i.ip_address :
     i \in {x \in Range(DeviceRecord(parsed_data.devices, name).interfaces) : IsAnnounced(x)}}

\* actor A has sent its Day-1 ARP request and actor B is a neighbour of A
ArpRequestSent(A, B) ==
  /\ IsActor(A) /\ IsActor(B)
  /\ ActorNamed(A).pc \in {"test", "check", "body", "done"}
  /\ B \in Range(NeighborNames(ActorNamed(A)))
  /\ AnnouncedIps(A) # {}

\* actor B has an announced address of A mapped to A and has received a message
ArpLearned(B, A) ==
  /\ ActorNamed(B).packets_received > 0
  /\ \E e \in Range(ActorNamed(B).arp_table) : e.source = A /\ e.ip \in AnnouncedIps(A)

\* actor B is not a running, unpaused actor
Halted(B) == ActorNamed(B).pc = "done" \/ ActorNamed(B).paused \/ ~ActorNamed(B).running

\* C9: once actor A has sent its Day-1 ARP request, a seeded neighbour B that
\* stays running and unpaused eventually has A's announced address mapped to
\* A in its ARP table, with a received counter above 0.
C9_ArpRequestReachesNeighbor ==
  \A A \in SimNames : \A B \in SimNames \ {A} :
    ArpRequestSent(A, B) ~>
      (IsActor(A) /\ IsActor(B) /\ (ArpLearned(B, A) \/ Halted(B)))

(***************************************************************************)
(* C10                                                                     *)
(***************************************************************************)
\* the number of broadcasts of the Day-1 initialization of an actor
DayOneBroadcasts(a) ==
  Len(ArpRequests(a, DeviceRecord(parsed_data.devices, a.name), now))
  + Len(ProtocolMessages(a, DeviceRecord(parsed_data.devices, a.name), now)) + 1

\* C10: one broadcast raises the sent counter of an actor with n neighbours
\* by n and one point-to-point send raises it by 1, so the Day-1
\* initialization, with its b broadcasts, raises it from 0 to b * n.
C10_BroadcastCountsEachNeighborOnce ==
  [][\A k \in 1..Len(actors) :
       actors[k].pc = "day1" /\ actors'[k].pc = "test" =>
         /\ \A n \in Range(NeighborNames(actors[k])) :
              SendMessageToNeighbor(actors[k], n, DiscoveryMessage(actors[k], now)).packets_sent
                = actors[k].packets_sent + 1
         /\ BroadcastMessage(actors[k], DiscoveryMessage(actors[k], now)).packets_sent
              = actors[k].packets_sent + Len(actors[k].neighbors)
         /\ actors'[k].packets_sent = DayOneBroadcasts(actors[k]) * Len(actors[k].neighbors)]_vars

(***************************************************************************)
(* C11                                                                     *)
(***************************************************************************)
\* the (network address, mask) group of an addressed interface
NetworkGroup(i) == <<NetworkAddress(i.ip_address, i.subnet_mask), i.subnet_mask>>

\* two distinct devices have addressed interfaces in one group
ShareNetworkGroup(d1, d2) ==
  /\ d1 # d2
  /\ \E i \in FlatSet, j \in FlatSet :
       /\ i.device = d1 /\ j.device = d2
       /\ HasIp(i) /\ HasIp(j)
       /\ NetworkGroup(i) = NetworkGroup(j)

NoActorStarted == actors # <<>> /\ \A k \in 1..Len(actors) : actors[k].pc = "new"

HasDirectNeighbor(A, B) ==
  \E n \in Range(ActorNamed(A).neighbors) : n.name = B /\ n.type = "direct"

\* C11: after LoadTopology and before any actor starts, two distinct devices
\* with addressed interfaces in the same (network address, mask) group are
\* direct neighbours of each other.
C11_SameNetworkDevicesAreNeighbors ==
  NoActorStarted =>
    \A A \in SimNames, B \in SimNames :
      IsActor(A) /\ IsActor(B) /\ ShareNetworkGroup(A, B) =>
        HasDirectNeighbor(A, B) /\ HasDirectNeighbor(B, A)

(***************************************************************************)
(* C12                                                                     *)
(***************************************************************************)
\* stop_simulation, called after start_simulation started the thread of A,
\* has gone through all the devices and returned
StopReturnedAfterStart(A) ==
  /\ IsActor(A)
  /\ ActorNamed(A).pc # "new"
  /\ ~sim.running
  /\ sim.stopping = 0

\* the thread of A has left its loop
Stopped(A) == IsActor(A) /\ ActorNamed(A).pc = "done"

\* C12: once Stop, called after Start returned, has returned, every actor
\* eventually leaves its loop, in every interleaving with the actors'
\* threads.
C12_StopReachesEveryActor ==
  \A A \in SimNames : StopReturnedAfterStart(A) ~> Stopped(A)

(***************************************************************************)
(* C13                                                                     *)
(***************************************************************************)
InLoop(A) == IsActor(A) /\ ActorNamed(A).pc \in {"test", "check", "body"}

\* the stop flag of A was set while A is in its loop and paused
StoppedWhilePaused(A) ==
  InLoop(A) /\ ActorNamed(A).paused /\ ~ActorNamed(A).running

\* C13: an actor that is in its loop and paused when its stop flag is set
\* leaves the loop without any resume: the loop condition is tested on every
\* turn whatever the paused flag.
C13_StopWhilePausedTerminates ==
  \A A \in SimNames : StoppedWhilePaused(A) ~> Stopped(A)

\* Stop has been called on a paused simulation whose actor is in its loop
C13_Witness ==
  \E A \in SimNames : StoppedWhilePaused(A) /\ ~sim.running /\ sim.paused

(***************************************************************************)
(* C14                                                                     *)
(***************************************************************************)
\* what a paused actor must leave alone: its mailbox, its tables and its
\* sent and received counters
QuiescentPart(a) ==
  <<a.message_queue, a.neighbors, a.arp_table, a.routing_table,
    a.packets_sent, a.packets_received>>

\* C14: between the return of Pause and the call of Resume, in every
\* interleaving and also when Pause came before Start, an actor removes no
\* message from its mailbox, changes none of its tables and sends nothing.
C14_PausedActorIsQuiescent ==
  [][\A k \in 1..Len(actors) :
       actors[k].paused /\ actors'[k].paused =>
         QuiescentPart(actors'[k]) = QuiescentPart(actors[k])]_vars

(***************************************************************************)
(* C15                                                                     *)
(***************************************************************************)
LoopPositions == {"test", "check", "body"}

\* the Day-1 messages of an actor in the order of the claim: ARP requests,
\* hello/open messages, neighbour discovery
DayOneMessages(a) ==
  ArpRequests(a, DeviceRecord(parsed_data.devices, a.name), now)
    \o ProtocolMessages(a, DeviceRecord(parsed_data.devices, a.name), now)
    \o <<DiscoveryMessage(a, now)>>

\* C15: whatever the coordinator calls, the thread of an actor goes through
\* the Day-1 initialization once: it reaches it only from the start of run,
\* enters its loop only through it and never comes back to it; the
\* initialization is one broadcast per addressed interface that is up, one
\* per ospf/bgp protocol and one neighbour discovery, in that order.
C15_DayOneExactlyOnce ==
  [][\A k \in 1..Len(actors) :
       /\ Len(actors') = Len(actors)
       /\ actors'[k].name = actors[k].name
       /\ actors'[k].pc # actors[k].pc =>
            /\ actors'[k].pc = "started" => actors[k].pc = "new"
            /\ actors'[k].pc = "day1" => actors[k].pc = "started"
            /\ actors'[k].pc \in LoopPositions /\ actors[k].pc \notin LoopPositions
                 => actors[k].pc = "day1"
            /\ actors[k].pc \in LoopPositions => actors'[k].pc \in LoopPositions \cup {"done"}
            /\ actors[k].pc # "done"
       /\ actors[k].pc = "day1" /\ actors'[k].pc # "day1" =>
            /\ actors[k].start_time # NoneInt
            /\ actors[k].last_update = NoneInt
            /\ Len(DayOneMessages(actors[k])) = DayOneBroadcasts(actors[k])
            /\ actors'[k] = [BroadcastEach(actors[k], DayOneMessages(actors[k]))
                               EXCEPT !.pc = "test"]]_vars

\* an actor that did its Day-1 broadcasts to a neighbour has since been
\* through a loop turn, after three coordinator calls
C15_Witness ==
  \E A \in SimNames :
    /\ InLoop(A)
    /\ ActorNamed(A).packets_sent > 0
    /\ ActorNamed(A).last_update # NoneInt
    /\ calls = MaxCalls
    /\ ~sim.paused

(***************************************************************************)
(* C16                                                                     *)
(***************************************************************************)
\* C16: an actor a device_failure was injected into, whatever its state at
\* that moment, is never made to run again by a later call or step, and
\* apart from a loop turn in progress it processes and sends nothing more.
C16_FailedActorStaysStopped ==
  [][\A k \in 1..Len(actors) :
       actors[k].name \in failed =>
         /\ ~actors[k].running => ~actors'[k].running
         /\ actors[k].pc # "body" => QuiescentPart(actors'[k]) = QuiescentPart(actors[k])]_vars


\* C17: a start_simulation call made while the simulation is running changes
\* nothing: the coordinator's flags, the actor registry and every actor
\* (its thread position included, so no thread is started and no Day-1
\* initialization is run again) are as they were before the call.
C17_StartWhileRunningIsNoOp ==
  [][(starts' = starts + 1 /\ sim.running) =>
       /\ sim' = sim
       /\ actors' = actors
       /\ parsed_data' = parsed_data
       /\ failed' = failed]_vars

\* two calls were made, both start_simulation: the second one found the
\* simulation running, with every thread of the first one started
C17_Witness ==
  /\ starts = 2
  /\ calls = 2
  /\ sim.running
  /\ actors # <<>>
  /\ \A k \in 1..Len(actors) : actors[k].pc # "new"


\* the call just made raised and returned nothing
Raised == validation_error # <<>>

\* C18: no validate_configuration call lets a failure of one of its checks
\* reach the caller: every call returns a result, which holds the issues of
\* both issue checks and the warnings of the checks that did not fail.
C18_FailingCheckIsSkipped ==
  [][validations' = validations + 1 =>
       /\ ~Raised'
       /\ validation_result' # <<>>
       /\ \E data \in ValidatorArguments :
            /\ validation_result'[1].issues = issues \o NewIssues(data, graph)
            /\ StartsWith(validation_result'[1].warnings,
                          warnings \o WarningsBeforeAggregation(data, graph))]_vars


\* C19: every validate_configuration call returns the findings of that call
\* alone, the issues and warnings its checks find in the data and topology
\* it is given, whatever the validator was called with before, so that two
\* calls with the same data and topology return the same lists; the totals
\* are the lengths of the lists returned.
C19_ValidatorIsStateless ==
  [][validations' = validations + 1 =>
       /\ validation_result'[1].issues = NewIssues(parsed_data, graph)
       /\ validation_result'[1].warnings = NewWarnings(parsed_data, graph)
       /\ validation_result'[1].total_issues = Len(validation_result'[1].issues)
       /\ validation_result'[1].total_warnings = Len(validation_result'[1].warnings)]_vars


\* the kind the device record holds, which validator and simulator read
RecordedType(d) == DeviceRecord(parsed_data.devices, d).type

\* C20: after BuildTopology the adjacency rule has been applied to the kinds
\* recorded in the device records: a device recorded as router or switch is
\* given that kind by the builder, and two devices that share a network are
\* joined exactly when their recorded kinds are a pair the rule connects.
C20_AdjacencyUsesRecordedKind ==
  Built => \A d1 \in DeviceNamesOf(parsed_data), d2 \in DeviceNamesOf(parsed_data) :
             /\ RecordedType(d1) \in {"router", "switch"}
                  => GetDeviceType(d1) = RecordedType(d1)
             /\ (d1 # d2 /\ ShareFirstMaskNetwork(d1, d2))
                  => (HasEdge(d1, d2) <=> ShouldConnect(RecordedType(d1), RecordedType(d2)))


(***************************************************************************)
(* C21                                                                     *)
(***************************************************************************)
\* C21: after BuildTopology two devices are joined by an edge exactly when
\* they are distinct, an addressed interface of one precedes an addressed
\* interface of the other in the input order with both addresses in one
\* network under the earlier interface's mask, and their kinds are a pair the
\* adjacency rule allows; and the graph is the one a single build of the
\* parsed input gives, however many builds were made.
C21_EdgeExactlyWhenFirstMaskAndKinds ==
  Built =>
    /\ \A d1 \in DeviceNames, d2 \in DeviceNames :
         HasEdge(d1, d2) <=> /\ d1 # d2
                             /\ ShareFirstMaskNetwork(d1, d2)
                             /\ AllowedKinds(GetDeviceType(d1), GetDeviceType(d2))
    /\ graph = BuiltGraph(EmptyGraph, parsed_data)

\* built twice: R1 precedes R2 and its /24 mask joins them, though under
\* R2's own /25 mask the two addresses are in different networks
C21_Witness ==
  /\ builds = 2
  /\ HasEdge(R1, R2)
  /\ ~ShareOwnNetwork(R1, R2)

\* built: R2 precedes R1, its /25 mask separates the same two addresses and
\* the two routers are not joined
C21_WitnessOrder ==
  /\ Built
  /\ {R1, R2} \subseteq DeviceNamesOf(parsed_data)
  /\ \E i1 \in FlatSet, i2 \in FlatSet :
       /\ i1.device = R1 /\ i2.device = R2
       /\ OwnNetwork(i1) = NetworkAddress(i2.ip_address, i1.subnet_mask)
  /\ ~HasEdge(R1, R2)


(***************************************************************************)
(* C22                                                                     *)
(***************************************************************************)
\* the places (p, q), p before q, of the interface pairs that qualify for
\* the edge e: same segment under the earlier mask, kinds allowed
QualifyingPairs(e) ==
  {pq \in (1..Len(parsed_data.interfaces)) \X (1..Len(parsed_data.interfaces)) :
     /\ pq[1] < pq[2]
     /\ {parsed_data.interfaces[pq[1]].device, parsed_data.interfaces[pq[2]].device} = e
     /\ SameSegment(parsed_data.interfaces[pq[1]], parsed_data.interfaces[pq[2]])
     /\ ShouldConnect(GetDeviceType(parsed_data.interfaces[pq[1]].device),
                      GetDeviceType(parsed_data.interfaces[pq[2]].device))}

\* the pair the nested loops reach last: the largest p, then the largest q
LastQualifyingPair(e) ==
  CHOOSE pq \in QualifyingPairs(e) :
    \A other \in QualifyingPairs(e) :
      \/ other[1] < pq[1]
      \/ other[1] = pq[1] /\ other[2] <= pq[2]

\* C22: after BuildTopology no edge is a self-loop, no device is listed twice
\* among a device's neighbours (one edge per unordered pair), and every
\* edge carries the attributes of the last interface pair, in iteration
\* order, that qualifies for it.
C22_OneEdgePerPairLastPairWins ==
  Built =>
    /\ \A e \in EdgeSet(graph) :
         /\ Cardinality(e) = 2
         /\ QualifyingPairs(e) # {}
         /\ graph.edges[e]
              = LinkAttributes(parsed_data.interfaces[LastQualifyingPair(e)[1]],
                               parsed_data.interfaces[LastQualifyingPair(e)[2]])
    /\ \A n \in NodeSet(graph) :
         /\ n \notin Range(AdjOf(graph, n))
         /\ Cardinality(Range(AdjOf(graph, n))) = Len(AdjOf(graph, n))
         /\ \A v \in NodeSet(graph) : v \in Range(AdjOf(graph, n)) <=> HasEdge(n, v)

\* built twice: an edge for which two interface pairs of different
\* attributes qualify
C22_Witness ==
  /\ builds = 2
  /\ \E e \in EdgeSet(graph) : \E a \in QualifyingPairs(e), b \in QualifyingPairs(e) :
       LinkAttributes(parsed_data.interfaces[a[1]], parsed_data.interfaces[a[2]])
         # LinkAttributes(parsed_data.interfaces[b[1]], parsed_data.interfaces[b[2]])


(***************************************************************************)
(* C23                                                                     *)
(***************************************************************************)
\* the 0-based rank of a node: the nodes of larger degree, and those of the
\* same degree inserted into the graph before it
RankOf(n) ==
  Cardinality({m \in NodeSet(graph) :
                 \/ Degree(graph, m) > Degree(graph, n)
                 \/ /\ Degree(graph, m) = Degree(graph, n)
                    /\ IndexOf(graph.nodes, m) < IndexOf(graph.nodes, n)})

\* the list holds its devices in ranking order
InRankOrder(tier_list) ==
  \A j \in 1..Len(tier_list), k \in 1..Len(tier_list) :
    j < k => RankOf(tier_list[j]) < RankOf(tier_list[k])

\* C23: after the first BuildTopology of N devices the node of 0-based rank
\* i (by descending degree, ties in node insertion order) is in core iff
\* i < 0.2 N, in distribution iff 0.2 N <= i < 0.6 N and in access otherwise,
\* each tier in ranking order; core holds ceil(0.2 N) devices, the single
\* device when N = 1.
C23_TierByRank ==
  builds = 1 =>
    /\ \A n \in NodeSet(graph) :
         /\ n \in Range(hierarchy.core) <=> 5 * RankOf(n) < Len(graph.nodes)
         /\ n \in Range(hierarchy.distribution)
              <=> /\ Len(graph.nodes) <= 5 * RankOf(n)
                  /\ 5 * RankOf(n) < 3 * Len(graph.nodes)
         /\ n \in Range(hierarchy.access) <=> 3 * Len(graph.nodes) <= 5 * RankOf(n)
    /\ InRankOrder(hierarchy.core)
    /\ InRankOrder(hierarchy.distribution)
    /\ InRankOrder(hierarchy.access)
    /\ Len(graph.nodes) <= 5 * Len(hierarchy.core)
    /\ 5 * Len(hierarchy.core) < Len(graph.nodes) + 5
    /\ Len(graph.nodes) = 1 => hierarchy.core = graph.nodes

\* a first build of three devices in which a core device and a distribution
\* device have the same degree, the insertion order deciding between them
C23_Witness ==
  /\ builds = 1
  /\ Len(graph.nodes) = 3
  /\ \E a \in Range(hierarchy.core), b \in Range(hierarchy.distribution) :
       Degree(graph, a) = Degree(graph, b) /\ Degree(graph, a) > 0

\* a first build of one device, which is core
C23_WitnessSingle ==
  /\ builds = 1
  /\ Len(graph.nodes) = 1
  /\ Len(hierarchy.core) = 1

\* a first build of two devices: core and distribution hold one each
C23_WitnessTwo ==
  /\ builds = 1
  /\ Len(graph.nodes) = 2
  /\ Len(hierarchy.core) = 1
  /\ Len(hierarchy.distribution) = 1


(***************************************************************************)
(* C24                                                                     *)
(***************************************************************************)
\* C24: after any number of BuildTopology calls on one builder every device
\* of the graph is listed exactly once in the three tier lists together,
\* and the lists hold nothing but devices of the graph.
C24_HierarchyRecomputedEachBuild ==
  Built =>
    /\ \A n \in NodeSet(graph) : TierCount(n) = 1
    /\ Len(hierarchy.core) + Len(hierarchy.distribution) + Len(hierarchy.access)
         = Len(graph.nodes)


(***************************************************************************)
(* C25                                                                     *)
(***************************************************************************)
\* the overloaded edges of the graph, in edge order
OverloadedEdges(g) ==
  SelectSeq(EdgeList(g),
            LAMBDA e : IsOverloaded(Utilization(EstimateLinkDemand(e[1], e[2]),
                                                g.edges[{e[1], e[2]}].bandwidth)))

\* the entry the claim describes for the overloaded edge e, given the paths
\* AlternatePaths(e[1], e[2], 3) returned
EntryForEdge(rec, e, paths) ==
  /\ rec.overloaded_link = LinkId(e[1], e[2])
  /\ IF Len(paths) > 1
     THEN /\ rec.type = "load_balancing"
          /\ rec.alternative_paths = SubSeq(paths, 2, Len(paths))
     ELSE /\ rec.type = "capacity_upgrade"
          /\ rec.suggested_bandwidth = (3 * EstimateLinkDemand(e[1], e[2])) \div 2

\* C25: the first analysis of a load balancer returns one recommendation
\* per overloaded edge, in edge order, an ECMP load_balancing entry with the
\* non-primary paths when the edge's two endpoints have more than one
\* alternate path among the first three and a capacity_upgrade entry of
\* int(1.5 * demand) otherwise, then one QoS entry iff some edge is
\* overloaded; whatever the device names are.
C25_OneRecommendationPerOverloadedEdge ==
  [][(analyses = 0 /\ analyses' = 1) =>
       LET recs == load_analysis'[1].recommendations
           over == OverloadedEdges(graph)
       IN IF over = <<>> THEN recs = <<>>
          ELSE /\ Len(recs) = Len(over) + 1
               /\ recs[Len(recs)].type = "qos"
               /\ \A k \in 1..Len(over) :
                    \E paths \in AlternativePaths(graph, over[k][1], over[k][2], 3) :
                      EntryForEdge(recs[k], over[k], paths)]_vars


(***************************************************************************)
(* C26                                                                     *)
(***************************************************************************)
\* the places in the mailbox q of actor a of the messages that write the
\* ARP entry of ip: ARP requests for it from another device
ArpWriters(a, q, ip) ==
  {k \in 1..Len(q) : q[k].type = "arp_request" /\ q[k].source # a.name /\ q[k].ip = ip}

\* the places of the messages that write the neighbor entry of name
NeighborWriters(a, q, name) ==
  {k \in 1..Len(q) : /\ q[k].type \in {"ospf_hello", "bgp_open", "neighbor_discovery"}
                      /\ q[k].source # a.name
                      /\ q[k].source = name}

Latest(places) == CHOOSE k \in places : \A j \in places : j <= k

\* the owner the ARP table gives for ip, <<>> when it has no entry
ArpOwner(arp_table, ip) ==
  IF \E k \in 1..Len(arp_table) : arp_table[k].ip = ip
  THEN arp_table[CHOOSE k \in 1..Len(arp_table) : arp_table[k].ip = ip].source
  ELSE <<>>

\* the protocol the neighbor table gives for name, "" when it has no entry
NeighborType(neighbors, name) ==
  IF \E k \in 1..Len(neighbors) : neighbors[k].name = name
  THEN neighbors[CHOOSE k \in 1..Len(neighbors) : neighbors[k].name = name].type
  ELSE ""

ProtocolOfKind(type) ==
  IF type = "ospf_hello" THEN "ospf" ELSE IF type = "bgp_open" THEN "bgp" ELSE "general"

\* C26: a turn of the loop body of an unpaused actor empties the mailbox,
\* adds one to packets_received per message it held, whatever its kind,
\* counts no error, and leaves the tables as handling the messages one by
\* one in arrival order leaves them: each ARP entry and each neighbor
\* entry is the one the latest message writing it gives, and an entry no
\* message writes (unrecognized kinds, the actor's own messages) is as before.
C26_MailboxDrainedInOrder ==
  [][\A k \in 1..Len(actors) :
       (actors[k].pc = "body" /\ actors'[k].pc = "test") =>
         LET a == actors[k]
             b == actors'[k]
             q == actors[k].message_queue
         IN /\ b.message_queue = <<>>
            /\ b.packets_received = a.packets_received + Len(q)
            /\ b.errors = a.errors
            /\ \A ip \in {MailboxIp} \cup {a.arp_table[j].ip : j \in 1..Len(a.arp_table)} :
                 ArpOwner(b.arp_table, ip)
                   = IF ArpWriters(a, q, ip) = {} THEN ArpOwner(a.arp_table, ip)
                     ELSE q[Latest(ArpWriters(a, q, ip))].source
            /\ \A name \in DeviceNames :
                 NeighborType(b.neighbors, name)
                   = IF NeighborWriters(a, q, name) = {} THEN NeighborType(a.neighbors, name)
                     ELSE ProtocolOfKind(q[Latest(NeighborWriters(a, q, name))].type)]_vars

\* three messages drained: the ARP entry is Switch0's, the later of two
\* requests, and the third message wrote no table
C26_Witness ==
  /\ actors # <<>>
  /\ actors[1].pc = "test"
  /\ actors[1].message_queue = <<>>
  /\ actors[1].packets_received = MaxMailbox
  /\ actors[1].arp_table = <<[ip |-> MailboxIp, source |-> Switch0]>>
  /\ actors[1].neighbors = <<>>

\* three messages drained, none of which wrote a table
C26_WitnessIgnored ==
  /\ actors # <<>>
  /\ actors[1].packets_received = MaxMailbox
  /\ actors[1].arp_table = <<>>
  /\ actors[1].neighbors = <<>>
  /\ actors[1].errors = 0


(***************************************************************************)
(* C27                                                                     *)
(***************************************************************************)
\* the interface x of the device record d, as the step left it, differs from
\* what it was in its status at most, which is down
OnlyStatusDown(before, after) == after = [before EXCEPT !.status = "down"]

\* C27: an interface_down fault on interface x of device d sets the status
\* of that interface to down in the device's configuration and changes
\* nothing else: not another interface, not another field of the record,
\* not another device, not the flattened interface entries, no actor, not the
\* coordinator's flags; when d is not a device of the coordinator or x is
\* not one of its interfaces, nothing changes at all.
C27_InterfaceDownTouchesOneStatus ==
  [][\A d \in SimNames \cup {Ghost}, x \in FaultInterfaces :
       InjectFault(d, "interface_down", x) =>
         /\ actors' = actors
         /\ sim' = sim
         /\ failed' = failed
         /\ parsed_data'.interfaces = parsed_data.interfaces
         /\ Len(parsed_data'.devices) = Len(parsed_data.devices)
         /\ \A k \in 1..Len(parsed_data.devices) :
              LET before == parsed_data.devices[k]
                  after == parsed_data'.devices[k]
              IN /\ [after EXCEPT !.interfaces = before.interfaces] = before
                 /\ Len(after.interfaces) = Len(before.interfaces)
                 /\ \A j \in 1..Len(before.interfaces) :
                      IF before.name = d /\ before.interfaces[j].name = x
                      THEN OnlyStatusDown(before.interfaces[j], after.interfaces[j])
                      ELSE after.interfaces[j] = before.interfaces[j]
         /\ (\/ \A k \in 1..Len(actors) : actors[k].name # d
             \/ \A i \in Range(DeviceRecord(parsed_data.devices, d).interfaces) : i.name # x)
              => parsed_data' = parsed_data]_vars

\* Gi0/0 of R1 has been taken down while its thread runs; Gi0/0's flattened
\* entry and R2 are as parsed
C27_Witness ==
  /\ \E k \in 1..Len(actors) : actors[k].name = R1 /\ actors[k].running
  /\ \E d \in Range(parsed_data.devices) :
       /\ d.name = R1
       /\ \E i \in Range(d.interfaces) : i.name = "Gi0/0" /\ i.status = "down"
  /\ \E i \in FlatSet : i.device = R1 /\ i.interface = "Gi0/0" /\ i.status = "up"
  /\ \E d \in Range(parsed_data.devices) :
       d.name = R2 /\ \A i \in Range(d.interfaces) : i.status = "up"


(***************************************************************************)
(* C28                                                                     *)
(***************************************************************************)
\* the actor has no neighbor entry under its own name and no ARP entry
\* owned by itself
ListsItself(a) ==
  \/ a.name \in Range(NeighborNames(a))
  \/ \E k \in 1..Len(a.arp_table) : a.arp_table[k].source = a.name

\* C28: in every reachable state no actor lists itself in its neighbor
\* table or as the owner of an entry of its ARP table, and handling any
\* message, one it sent itself included, leaves it so.
C28_NoActorListsItself ==
  \A k \in 1..Len(actors) :
    /\ ~ListsItself(actors[k])
    /\ \A message \in MailboxMessages : ~ListsItself(HandleMessage(actors[k], message))

\* R1 and R2 announce the same address and were seeded as each other's
\* neighbor, and R1 has sent its Day-1 messages
C28_Witness ==
  /\ Len(actors) = 2
  /\ \A k \in 1..Len(actors) : Len(actors[k].neighbors) = 1
  /\ \E k \in 1..Len(actors) :
       actors[k].name = R1 /\ actors[k].pc = "test" /\ actors[k].packets_sent > 0


(***************************************************************************)
(* C29                                                                     *)
(***************************************************************************)
\* the thread of every actor has left its loop
AllStopped == actors # <<>> /\ \A k \in 1..Len(actors) : actors[k].pc = "done"

\* an actor whose loop has exited stays as it is: stopped, with the tables
\* and counters it had
StoppedIsTerminal ==
  \A k \in 1..Len(actors) :
    actors[k].pc = "done" =>
      /\ actors'[k].pc = "done"
      /\ ~actors'[k].running
      /\ QuiescentPart(actors'[k]) = QuiescentPart(actors[k])

\* C29: an actor whose loop has exited is never made to run again and keeps
\* its tables and counters under every later coordinator call; and a
\* start_simulation called after stop_simulation, when every actor has
\* stopped, starts no actor and does not leave the coordinator reporting
\* running.
C29_StoppedIsTerminal ==
  [][/\ StoppedIsTerminal
     /\ (starts' = starts + 1 /\ ~sim.running /\ AllStopped)
          => (actors' = actors /\ ~sim'.running)]_vars

\* the part of C29 about the actors alone
C29_StoppedActorsStay == [][StoppedIsTerminal]_vars


(***************************************************************************)
(* C30                                                                     *)
(***************************************************************************)
\* the undirected graph has a cycle: a closed walk through at least three
\* distinct devices
HasUndirectedCycle(g) == \E c \in DirectedSimpleCycles(g) : Len(c) >= 3

\* the network_loop warnings a validation step appended
NewLoopWarnings ==
  {k \in (Len(warnings) + 1)..Len(warnings') : warnings'[k].type = "network_loop"}

\* C30: a validation appends a network_loop warning only when the
\* undirected topology graph has a cycle, none for a tree or a forest, and
\* at most 5 in any case.
C30_LoopWarningOnlyForCycles ==
  [][validations' = validations + 1 =>
       /\ Cardinality(NewLoopWarnings) <= 5
       /\ ~HasUndirectedCycle(graph) => NewLoopWarnings = {}]_vars

====
